---- MODULE Spec2Model ----
(***************************************************************************)
(* Recording viewer of gn-web-tracing-server: the bundle normalisation     *)
(* done by App when the recording is fetched, the timeline correlation     *)
(* computed by ConsoleViewer and NetworkViewer (nearest entry and visible  *)
(* subset for the current playback time and filter), and the VideoPlayer   *)
(* handlers that deliver the playback time to App; the timeline markers    *)
(* App derives from the two streams; the initiator stack shown in the      *)
(* detail of a network entry; and the recording store of the server        *)
(* (disk-store.ts) behind the upload, recording and video routes.          *)
(*                                                                         *)
(* Numbers are integers.  Times that the code keeps in seconds             *)
(* (video.currentTime, wallTime, timestamp of a network entry) are kept in *)
(* thousandths of a second, so that "x * 1000" is the millisecond count;   *)
(* floating point rounding is not modelled.  An optional field of a JS     *)
(* object is a field that is or is not in the DOMAIN of the record.        *)
(* Array indices are 0-based as in the code; position i of a TLA+ sequence *)
(* holds index i - 1.  Strings that the code inspects character by         *)
(* character (URLs) are sequences of one-character strings.                *)
(***************************************************************************)
EXTENDS Integers, Sequences, FiniteSets, TLC

VARIABLES
    response,         \* body of GET /api/recordings/:id (data in App's fetch handler)
    now,              \* performance.now(), ms
    loading,          \* App state
    startTime,        \* App state (st)
    consoleLogs,      \* App state: normalised console stream
    networkRequests,  \* App state: normalised network stream
    activeTab,        \* App state
    currentTimeMs,    \* App state: the playback time handed to the viewers
    video,            \* the <video> element: currentTime (1/1000 s), paused
    player,           \* VideoPlayer: lastEmitRef, currentTime, playing
    consoleViewer,    \* ConsoleViewer instance (or unmounted)
    networkViewer,    \* NetworkViewer instance (or unmounted)
    error,            \* App state
    webSocketLogs,    \* App state
    markers,          \* App: the memoised timeline markers
    disk,             \* server: the recording directories under DATA_DIR
    reply             \* server: the reply to the last HTTP request

vars == <<response, now, loading, startTime, consoleLogs, networkRequests,
          activeTab, currentTimeMs, video, player, consoleViewer, networkViewer,
          error, webSocketLogs, markers, disk, reply>>

\* the state of the server
serverVars == <<disk, reply>>

\* the state of the viewer page
clientVars == <<response, now, loading, startTime, consoleLogs, networkRequests,
                activeTab, currentTimeMs, video, player, consoleViewer, networkViewer,
                error, webSocketLogs, markers>>

(***************************************************************************)
(* Bounds of the model.                                                    *)
(***************************************************************************)
\* a bundle of the correlation checks holds at most this many events,
\* console and network together
MaxEvents == 2
\* performance.now() does not pass this value
MaxNow == 500
\* call frames of an initiator stack, over all its hops
MaxFrames == 3
\* async parents of an initiator stack
MaxHops == 1
\* recording directories the store comes to hold
MaxRecordings == 2
\* captured properties of an object preview
MaxProperties == 2

(***************************************************************************)
(* JavaScript values.                                                      *)
(***************************************************************************)
\* the number NaN (Date.getTime() of an invalid date, arithmetic on it)
NaN == -999999

Has(o, f) == f \in DOMAIN o

\* truthiness of an optional numeric field: undefined, 0 and NaN are falsy
TruthyNum(o, f) == Has(o, f) /\ o[f] # 0 /\ o[f] # NaN

\* truthiness of an optional string field: undefined and "" are falsy
TruthyStr(o, f) == Has(o, f) /\ o[f] # ""

\* a - b
Minus(a, b) == IF a = NaN \/ b = NaN THEN NaN ELSE a - b

\* a <= b  (false when either side is NaN)
Leq(a, b) == a # NaN /\ b # NaN /\ a <= b

\* seconds (kept in thousandths) * 1000
Times1000(sec) == IF sec = NaN THEN NaN ELSE (sec * 1000) \div 1000

Abs(x) == IF x < 0 THEN -x ELSE x

\* { ...e, relativeMs }
WithRelativeMs(e, rel) == ("relativeMs" :> rel) @@ e

\* new Date(s).getTime() for the timestamp strings of the model
DateGetTime(s) ==
    CASE s = "1970-01-01T00:00:01.000Z" -> 1000
      [] s = "1970-01-01T00:00:00.900Z" -> 900
      [] OTHER -> NaN

(***************************************************************************)
(* The bundles a recording can hold.  The server returns what was uploaded  *)
(* (disk-store.ts getRecording), so every field is client supplied.        *)
(***************************************************************************)
\* metadata: startTime (epoch ms) and/or timestamp (ISO 8601 string)
MetadataPool ==
    { [startTime |-> 1000],
      [timestamp |-> "1970-01-01T00:00:01.000Z"],
      [startTime |-> 0, timestamp |-> "1970-01-01T00:00:00.900Z"],
      [url |-> "http://app.test/"] }

\* raw console entries: new format (source present) and legacy format
ConsolePool ==
    { [timestamp |-> 1500, source |-> "console", level |-> "log"],
      [timestamp |-> 1500, source |-> "exception", level |-> "warn"],
      [timestamp |-> 900, level |-> "trace"],
      [timestamp |-> 2200, source |-> "browser"] }

\* raw network entries: wallTime / timestamp in thousandths of a second
NetworkPool ==
    { [wallTime |-> 2200, timestamp |-> 7300, resourceType |-> "XHR",
       request |-> [url |-> <<"/", "a", ".", "p", "n", "g", "?", "x", "=", "1">>]],
      [timestamp |-> 1500, resourceType |-> "Script",
       url |-> <<"/", "a", "p", "p", ".", "J", "S">>],
      [wallTime |-> 0, timestamp |-> 900, resourceType |-> "Ping",
       url |-> <<"h", "t", "t", "p", ":", "/", "/">>] }

RECURSIVE SeqsUpTo(_, _)
SeqsUpTo(S, n) ==
    IF n = 0 THEN { <<>> }
    ELSE LET shorter == SeqsUpTo(S, n - 1)
         IN  shorter \cup { Append(s, x) : s \in { q \in shorter : Len(q) = n - 1 }, x \in S }

\* a JSON array payload is the record [array |-> <<...>>], JSON null is the
\* record [null |-> TRUE]; any other record is a JSON object with those fields
JsonArray(elements) == [array |-> elements]
JsonNull == [null |-> TRUE]
EmptyObject == [f \in {} |-> TRUE]

\* res.json({ ok: true, ...data })
Response(m, c, nd, ws) ==
    [ok |-> TRUE, metadata |-> m, consoleLogs |-> c, networkRequests |-> nd,
     webSocketLogs |-> ws]

\* res.status(404).json({ ok: false, error: "Recording not found" })
NotFoundResponse == [ok |-> FALSE, error |-> "Recording not found"]

\* a recording with a flat network array and no websocket connection
Bundle(m, c, n) == Response(m, c, JsonArray(n), JsonArray(<<>>))

\* the bundles of the correlation checks
QueryBundles ==
    LET lists == { cn \in SeqsUpTo(ConsolePool, MaxEvents) \X SeqsUpTo(NetworkPool, MaxEvents) :
                     Len(cn[1]) + Len(cn[2]) <= MaxEvents }
    IN  { Bundle(m, cn[1], cn[2]) : m \in MetadataPool, cn \in lists }

\* playback positions (ms) the video is played or seeked to
Times == { 0, 600, 1300, 1999, 2000 }

(***************************************************************************)
(* Bundle normalisation: the fetch handler of App.                         *)
(***************************************************************************)
\* the comparator result a - b of Array.prototype.sort: positive puts a
\* after b, NaN counts as 0
ComparesAfter(a, b) == a # NaN /\ b # NaN /\ a - b > 0

\* variant: the element is appended where it arrived, the list is left unsorted
AppendUnsorted(sorted, x, f) == Append(sorted, x)

RECURSIVE InsertByField(_, _, _)
InsertByField(sorted, x, f) ==
    IF sorted = <<>> THEN <<x>>
    ELSE LET last == sorted[Len(sorted)]
         IN  IF ComparesAfter(last[f], x[f])
             THEN Append(InsertByField(SubSeq(sorted, 1, Len(sorted) - 1), x, f), last)
             ELSE Append(sorted, x)

\* arr.sort((a, b) => a[f] - b[f]): the sort is stable
RECURSIVE SortByField(_, _)
SortByField(arr, f) ==
    IF arr = <<>> THEN <<>>
    ELSE InsertByField(SortByField(SubSeq(arr, 1, Len(arr) - 1), f), arr[Len(arr)], f)

\* meta.startTime || new Date(meta.timestamp || "").getTime()
SessionStart(meta) ==
    IF TruthyNum(meta, "startTime") THEN meta.startTime
    ELSE DateGetTime(IF TruthyStr(meta, "timestamp") THEN meta.timestamp ELSE "")

ConsoleRelativeMs(e, st) == Minus(e.timestamp, st)

\* variant: the monotonic timestamp is preferred to the wall clock
NetworkRelativeMsMonotonicFirst(e, st) ==
    IF TruthyNum(e, "timestamp") THEN Minus(Times1000(e.timestamp), st)
    ELSE IF TruthyNum(e, "wallTime") THEN Minus(Times1000(e.wallTime), st)
    ELSE 0

\* variant: the session start is not subtracted
NetworkRelativeMsAbsolute(e, st) ==
    IF TruthyNum(e, "wallTime") THEN Times1000(e.wallTime)
    ELSE IF TruthyNum(e, "timestamp") THEN Times1000(e.timestamp)
    ELSE 0

\* variant: an entry without timestamps is dated at the epoch
NetworkRelativeMsFromStart(e, st) ==
    IF TruthyNum(e, "wallTime") THEN Minus(Times1000(e.wallTime), st)
    ELSE IF TruthyNum(e, "timestamp") THEN Minus(Times1000(e.timestamp), st)
    ELSE Minus(0, st)

NetworkRelativeMs(e, st) ==
    IF TruthyNum(e, "wallTime") THEN Minus(Times1000(e.wallTime), st)
    ELSE IF TruthyNum(e, "timestamp") THEN Minus(Times1000(e.timestamp), st)
    ELSE 0

NormalizeConsole(raw, st) ==
    SortByField([i \in 1..Len(raw) |-> WithRelativeMs(raw[i], ConsoleRelativeMs(raw[i], st))],
                "timestamp")

\* Array.isArray(payload)
IsArray(payload) == Has(payload, "array")

\* truthiness of a JSON payload: null is falsy, objects and arrays are truthy
Truthy(payload) == ~Has(payload, "null")

\* the value rawNet holds after the two tests on nd
RawNet(nd) ==
    IF /\ Truthy(nd) /\ ~IsArray(nd)
       /\ Has(nd, "log") /\ Truthy(nd.log)
       /\ Has(nd.log, "entries") /\ Truthy(nd.log.entries)
    THEN nd.log.entries
    ELSE IF IsArray(nd) THEN nd
    ELSE JsonArray(<<>>)

\* rawNet.map is not a function: the .then handler throws a TypeError
NetworkThrows(nd) == ~IsArray(RawNet(nd))

NormalizeNetwork(nd, st) ==
    LET rawNet == RawNet(nd).array
    IN  SortByField([i \in 1..Len(rawNet) |->
                        WithRelativeMs(rawNet[i], NetworkRelativeMs(rawNet[i], st))],
                    "relativeMs")

\* data.webSocketLogs || []
NormalizeWebSocketLogs(data) ==
    IF Has(data, "webSocketLogs") /\ Truthy(data.webSocketLogs)
    THEN data.webSocketLogs
    ELSE JsonArray(<<>>)

(***************************************************************************)
(* Marker projection: the markers useMemo of App.  Messages, methods and   *)
(* URLs are sequences of one-character strings.                            *)
(***************************************************************************)
\* .slice(0, 80)
MarkerLabelLimit == 80

\* str.slice(0, n)
Slice(str, n) == SubSeq(str, 1, IF Len(str) < n THEN Len(str) ELSE n)

\* the text "Error: "
ErrorPrefix == <<"E", "r", "r", "o", "r", ":", " ">>

\* the text "GET"
DefaultMethod == <<"G", "E", "T">>

\* variant: the level field alone decides, whatever the source
MarkerLevelFromField(entry) ==
    IF TruthyStr(entry, "level") THEN entry.level ELSE "log"

\* the level a console entry has for the markers
MarkerLevel(entry) ==
    IF Has(entry, "source") /\ entry.source = "exception" THEN "error"
    ELSE IF Has(entry, "source") /\ entry.source = "browser"
         THEN (IF TruthyStr(entry, "level") THEN entry.level ELSE "info")
         ELSE (IF TruthyStr(entry, "level") THEN entry.level ELSE "log")

\* entry.message || entry.args?.[0]?.description || ""
ConsoleMessage(entry) ==
    IF Has(entry, "message") /\ entry.message # <<>> THEN entry.message
    ELSE IF /\ Has(entry, "args") /\ Len(entry.args) >= 1
            /\ Has(entry.args[1], "description") /\ entry.args[1].description # <<>>
         THEN entry.args[1].description
         ELSE <<>>

\* entry.request?.method || entry.method || "GET"
EntryMethod(entry) ==
    IF Has(entry, "request") /\ Has(entry.request, "method") /\ entry.request.method # <<>>
    THEN entry.request.method
    ELSE IF Has(entry, "method") /\ entry.method # <<>> THEN entry.method
    ELSE DefaultMethod

\* entry.request?.url || entry.url || ""
MarkerUrl(entry) ==
    IF Has(entry, "request") /\ Has(entry.request, "url") /\ entry.request.url # <<>>
    THEN entry.request.url
    ELSE IF Has(entry, "url") /\ entry.url # <<>> THEN entry.url
    ELSE <<>>

\* the loop over consoleLogs
ConsoleMarkers(logs) ==
    LET errors == SelectSeq(logs, LAMBDA entry : MarkerLevel(entry) = "error")
    IN  [i \in 1..Len(errors) |->
            [timeMs |-> errors[i].relativeMs, color |-> "#f85149",
             label |-> ErrorPrefix \o Slice(ConsoleMessage(errors[i]), MarkerLabelLimit)]]

\* variant: only the requests that failed get a marker
NetworkMarkersFailedOnly(net) ==
    LET failed == SelectSeq(net, LAMBDA entry : Has(entry, "error"))
    IN  [i \in 1..Len(failed) |->
            [timeMs |-> failed[i].relativeMs, color |-> "#58a6ff",
             label |-> Slice(EntryMethod(failed[i]) \o <<" ">> \o MarkerUrl(failed[i]),
                             MarkerLabelLimit)]]

\* the loop over networkRequests
NetworkMarkers(net) ==
    [i \in 1..Len(net) |->
        [timeMs |-> net[i].relativeMs, color |-> "#58a6ff",
         label |-> Slice(EntryMethod(net[i]) \o <<" ">> \o MarkerUrl(net[i]), MarkerLabelLimit)]]

Markers(logs, net) == ConsoleMarkers(logs) \o NetworkMarkers(net)

\* useMemo(..., [consoleLogs, networkRequests]) on a render of App
UseMemoMarkers(memo, oldDeps, newDeps) ==
    IF newDeps # oldDeps THEN Markers(newDeps[1], newDeps[2]) ELSE memo

(***************************************************************************)
(* ConsoleViewer: levels.                                                  *)
(***************************************************************************)
FILTER_LEVELS == <<"all", "log", "warn", "error", "info", "debug", "exception", "browser">>

isNewFormat(entry) == Has(entry, "source")

getLevel(entry) ==
    IF isNewFormat(entry)
    THEN IF entry.source = "exception" THEN "error"
         ELSE IF entry.source = "browser"
              THEN (IF TruthyStr(entry, "level") THEN entry.level ELSE "info")
              ELSE (IF TruthyStr(entry, "level") THEN entry.level ELSE "log")
    ELSE IF TruthyStr(entry, "level") THEN entry.level ELSE "log"

getFilterLevel(entry) ==
    IF isNewFormat(entry) /\ entry.source = "exception" THEN "exception"
    ELSE IF isNewFormat(entry) /\ entry.source = "browser" THEN "browser"
    ELSE getLevel(entry)

(***************************************************************************)
(* ConsoleViewer: the HTML of the arguments of a row.  A text of the       *)
(* recording (name, value, description, class name, message) is a sequence *)
(* of one-character strings.  The HTML is the sequence of the pieces it is *)
(* put together from: the literals of the templates (tags, brackets,       *)
(* separators) and the characters of the interpolated texts.               *)
(***************************************************************************)
\* an optional text field, handed on as a parameter that may be undefined
Field(o, f) == IF Has(o, f) THEN [value |-> o[f]] ELSE EmptyObject

\* truthiness of an optional text: undefined and "" are falsy
TruthyText(o, f) == Has(o, f) /\ o[f] # <<>>

\* escapeHtml(str)
escapeHtml(str) ==
    [i \in 1..Len(str) |->
        CASE str[i] = "&" -> "&amp;"
          [] str[i] = "<" -> "&lt;"
          [] str[i] = ">" -> "&gt;"
          [] str[i] = "\"" -> "&quot;"
          [] OTHER -> str[i]]

\* <span class="...">
SpanOpen(class) == "<span class=\"" \o class \o "\">"
SpanClose == "</span>"

\* `<span class="${class}">${content}</span>`
Span(class, content) == <<SpanOpen(class)>> \o content \o <<SpanClose>>

\* list.join(sep)
RECURSIVE Join(_, _)
Join(list, sep) ==
    IF list = <<>> THEN <<>>
    ELSE IF Len(list) = 1 THEN list[1]
    ELSE list[1] \o <<sep>> \o Join(Tail(list), sep)

\* `${b}` for a boolean
BoolText(b) == IF b THEN "true" ELSE "false"

\* `${prop.value}` for the optional text prop.value
ValueText(prop) == IF Has(prop, "value") THEN prop.value ELSE <<"undefined">>

\* preview.overflow ? ", ..." : ""
OverflowText(preview) ==
    IF Has(preview, "overflow") /\ preview.overflow THEN <<", ...">> ELSE <<>>

\* variant: the name of the property is shown in arrays too
PropertyTextKeyed(p, isArray, val) ==
    Span("text-gh-purple", escapeHtml(p.name)) \o <<": ">> \o val

\* the callback of preview.properties.map for a property p rendered as val
PropertyText(p, isArray, val) ==
    IF isArray THEN val
    ELSE Span("text-gh-purple", escapeHtml(p.name)) \o <<": ">> \o val

\* isArray ? "[" : className && className !== "Object" ? `${className} {` : "{"
OpenText(isArray, className) ==
    IF isArray THEN <<"[">>
    ELSE IF Has(className, "value") /\ className.value # <<>>
            /\ className.value # <<"O", "b", "j", "e", "c", "t">>
         THEN className.value \o <<" {">>
         ELSE <<"{">>

RECURSIVE renderPreview(_, _)
RECURSIVE renderPreviewValue(_)

renderPreviewValue(prop) ==
    IF Has(prop, "valuePreview")
    THEN renderPreview(prop.valuePreview, Field(prop.valuePreview, "description"))
    ELSE CASE prop.type = "string" ->
                Span("text-gh-blue-str",
                     <<"\"">> \o escapeHtml(IF TruthyText(prop, "value") THEN prop.value ELSE <<>>)
                     \o <<"\"">>)
           [] prop.type \in { "number", "bigint", "boolean" } ->
                Span("text-gh-blue-num", ValueText(prop))
           [] prop.type = "undefined" -> Span("text-gh-secondary", <<"undefined">>)
           [] prop.type = "function" -> Span("text-gh-purple italic", <<"\\u0192">>)
           [] prop.type = "object" ->
                IF Has(prop, "subtype") /\ prop.subtype = "null"
                THEN Span("text-gh-secondary", <<"null">>)
                ELSE Span("text-gh-secondary",
                          IF TruthyText(prop, "value") THEN escapeHtml(prop.value)
                          ELSE <<"Object">>)
           [] OTHER -> escapeHtml(IF TruthyText(prop, "value") THEN prop.value ELSE <<>>)

renderPreview(preview, className) ==
    IF ~Has(preview, "properties") \/ Len(preview.properties) = 0
    THEN IF Has(preview, "subtype") /\ preview.subtype = "array" THEN <<"[]">>
         ELSE IF Has(className, "value") /\ className.value # <<>>
              THEN className.value \o <<" {}">>
              ELSE <<"{}">>
    ELSE LET isArray == Has(preview, "subtype") /\ preview.subtype = "array"
             props == Join([i \in 1..Len(preview.properties) |->
                               PropertyText(preview.properties[i], isArray,
                                            renderPreviewValue(preview.properties[i]))],
                           ", ")
         IN  OpenText(isArray, className) \o props \o OverflowText(preview)
             \o <<(IF isArray THEN "]" ELSE "}")>>

renderObjectPreview(obj) ==
    LET subtype == IF Has(obj, "subtype") THEN obj.subtype ELSE ""
        description == IF TruthyText(obj, "description") THEN obj.description ELSE <<>>
    IN  IF subtype = "null" THEN Span("text-gh-secondary", <<"null">>)
        ELSE IF subtype = "error"
        THEN Span("text-gh-error whitespace-pre-wrap",
                  IF description # <<>> THEN escapeHtml(description) ELSE <<"Error">>)
        ELSE IF subtype = "regexp" THEN Span("text-gh-orange", escapeHtml(description))
        ELSE IF subtype = "date" THEN Span("text-gh-blue-str", escapeHtml(description))
        ELSE IF Has(obj, "preview") THEN renderPreview(obj.preview, Field(obj, "className"))
        ELSE Span("text-gh-secondary",
                  IF description # <<>> THEN escapeHtml(description)
                  ELSE IF TruthyText(obj, "className") THEN escapeHtml(obj.className)
                  ELSE <<"Object">>)

\* obj.description || obj.value, for a number or a bigint
NumberText(obj) ==
    IF TruthyText(obj, "description") THEN obj.description
    ELSE IF Has(obj, "value") THEN <<ToString(obj.value)>> ELSE <<"undefined">>

\* renderRemoteObject(obj); a null among the arguments is the JSON null
renderRemoteObject(obj) ==
    IF ~Truthy(obj) THEN <<"undefined">>
    ELSE CASE obj.type = "undefined" -> Span("text-gh-secondary", <<"undefined">>)
           [] obj.type = "boolean" ->
                Span("text-gh-blue-num",
                     <<(IF Has(obj, "value") THEN BoolText(obj.value) ELSE "undefined")>>)
           [] obj.type = "number" -> Span("text-gh-blue-num", NumberText(obj))
           [] obj.type = "bigint" -> Span("text-gh-blue-num", NumberText(obj) \o <<"n">>)
           [] obj.type = "string" ->
                Span("text-gh-blue-str",
                     escapeHtml(IF Has(obj, "value") THEN obj.value
                                ELSE IF TruthyText(obj, "description") THEN obj.description
                                ELSE <<>>))
           [] obj.type = "symbol" ->
                Span("text-gh-purple",
                     IF TruthyText(obj, "description") THEN escapeHtml(obj.description)
                     ELSE <<"Symbol()">>)
           [] obj.type = "function" ->
                Span("text-gh-purple italic",
                     <<"\\u0192 ">> \o (IF TruthyText(obj, "description")
                                       THEN escapeHtml(obj.description) ELSE <<"anonymous">>))
           [] obj.type = "object" -> renderObjectPreview(obj)
           [] OTHER ->
                IF TruthyText(obj, "description") THEN escapeHtml(obj.description)
                ELSE escapeHtml(ValueText(obj))

\* whitespace of the pattern \s, for the characters of the model
IsSpace(c) == c \in { " ", "\t", "\n" }

\* msg.search(/\n\s+at /): 0-based position of the first match, -1 when none
SearchStackLine(msg) ==
    LET Matches(i) ==
            /\ msg[i] = "\n"
            /\ \E j \in (i + 1)..(Len(msg) - 3) :
                  /\ \A k \in (i + 1)..j : IsSpace(msg[k])
                  /\ msg[j + 1] = "a" /\ msg[j + 2] = "t" /\ msg[j + 3] = " "
        found == { i \in 1..Len(msg) : Matches(i) }
    IN  IF found = {} THEN -1
        ELSE (CHOOSE i \in found : \A j \in found : i <= j) - 1

\* renderArgs(entry).  The arguments of a new-format entry are remote
\* objects; the legacy entries of the model carry no argument list
renderArgs(entry) ==
    IF isNewFormat(entry)
    THEN IF entry.source = "exception" \/ entry.source = "browser"
         THEN LET msg == IF Has(entry, "message") THEN entry.message ELSE <<>>
                  firstStackLine == SearchStackLine(msg)
              IN  escapeHtml(IF firstStackLine >= 0 THEN SubSeq(msg, 1, firstStackLine) ELSE msg)
         ELSE IF ~Has(entry, "args") THEN <<>>
              ELSE Join([i \in 1..Len(entry.args) |-> renderRemoteObject(entry.args[i])], " ")
    ELSE <<"undefined">>

(***************************************************************************)
(* NetworkViewer: resource classification.                                 *)
(***************************************************************************)
FILTER_TYPES == <<"all", "fetch", "js", "css", "img", "doc", "font", "media", "ws", "other">>

\* Object.entries(TYPE_MAP), in insertion order
TYPE_MAP ==
    << <<"fetch", {"XHR", "Fetch"}>>, <<"js", {"Script"}>>, <<"css", {"Stylesheet"}>>,
       <<"img", {"Image"}>>, <<"doc", {"Document"}>>, <<"font", {"Font"}>>,
       <<"media", {"Media"}>>, <<"ws", {"WebSocket"}>> >>

STATIC_EXT_MAP ==
    (<<".", "j", "s">> :> "js") @@ (<<".", "m", "j", "s">> :> "js") @@
    (<<".", "c", "j", "s">> :> "js") @@ (<<".", "m", "a", "p">> :> "js") @@
    (<<".", "c", "s", "s">> :> "css") @@
    (<<".", "p", "n", "g">> :> "img") @@ (<<".", "j", "p", "g">> :> "img") @@
    (<<".", "j", "p", "e", "g">> :> "img") @@ (<<".", "g", "i", "f">> :> "img") @@
    (<<".", "s", "v", "g">> :> "img") @@ (<<".", "w", "e", "b", "p">> :> "img") @@
    (<<".", "i", "c", "o">> :> "img") @@ (<<".", "a", "v", "i", "f">> :> "img") @@
    (<<".", "w", "o", "f", "f">> :> "font") @@ (<<".", "w", "o", "f", "f", "2">> :> "font") @@
    (<<".", "t", "t", "f">> :> "font") @@ (<<".", "e", "o", "t">> :> "font") @@
    (<<".", "o", "t", "f">> :> "font") @@
    (<<".", "m", "p", "4">> :> "media") @@ (<<".", "w", "e", "b", "m">> :> "media") @@
    (<<".", "m", "p", "3">> :> "media") @@ (<<".", "o", "g", "g">> :> "media") @@
    (<<".", "w", "a", "v">> :> "media") @@
    (<<".", "h", "t", "m", "l">> :> "doc") @@ (<<".", "h", "t", "m">> :> "doc")

UpperCase == <<"A", "B", "C", "D", "E", "F", "G", "H", "I", "J", "K", "L", "M",
               "N", "O", "P", "Q", "R", "S", "T", "U", "V", "W", "X", "Y", "Z">>
LowerCase == <<"a", "b", "c", "d", "e", "f", "g", "h", "i", "j", "k", "l", "m",
               "n", "o", "p", "q", "r", "s", "t", "u", "v", "w", "x", "y", "z">>

\* String.prototype.toLowerCase
toLowerCase(str) ==
    [i \in 1..Len(str) |->
        IF \E k \in 1..26 : UpperCase[k] = str[i]
        THEN LowerCase[CHOOSE k \in 1..26 : UpperCase[k] = str[i]]
        ELSE str[i]]

\* position (1-based) of the first character of str that is in chars, or Len + 1
FirstOf(str, chars) ==
    IF \E i \in 1..Len(str) : str[i] \in chars
    THEN CHOOSE i \in 1..Len(str) : str[i] \in chars /\ \A j \in 1..(i - 1) : str[j] \notin chars
    ELSE Len(str) + 1

HttpPrefix == <<"h", "t", "t", "p", ":", "/", "/">>

HasHttpScheme(url) == Len(url) >= Len(HttpPrefix) /\ SubSeq(url, 1, Len(HttpPrefix)) = HttpPrefix

\* the part of an absolute http URL after "http://"
AfterScheme(url) == SubSeq(url, Len(HttpPrefix) + 1, Len(url))

\* new URL(url, "http://x") throws: an http URL with an empty host
URLThrows(url) == HasHttpScheme(url) /\ FirstOf(AfterScheme(url), {"/", "?", "#"}) = 1

\* variant: the query string and the fragment stay in the path
URLPathnameWithQuery(url) ==
    LET ref == IF HasHttpScheme(url)
               THEN LET rest == AfterScheme(url)
                    IN  SubSeq(rest, FirstOf(rest, {"/", "?", "#"}), Len(rest))
               ELSE url
    IN  IF ref = <<>> \/ ref[1] # "/" THEN <<"/">> \o ref ELSE ref

\* new URL(url, "http://x").pathname for http URLs and for references
\* relative to the base
URLPathname(url) ==
    LET ref == IF HasHttpScheme(url)
               THEN LET rest == AfterScheme(url)
                    IN  SubSeq(rest, FirstOf(rest, {"/", "?", "#"}), Len(rest))
               ELSE url
        path == SubSeq(ref, 1, FirstOf(ref, {"?", "#"}) - 1)
    IN  IF path = <<>> \/ path[1] # "/" THEN <<"/">> \o path ELSE path

\* str.lastIndexOf("."), 0-based, -1 when there is none
lastIndexOfDot(str) ==
    IF \E i \in 1..Len(str) : str[i] = "."
    THEN (CHOOSE i \in 1..Len(str) : str[i] = "." /\ \A j \in (i + 1)..Len(str) : str[j] # ".") - 1
    ELSE -1

\* entry.request?.url || entry.url || ""
EntryUrl(entry) ==
    IF Has(entry, "request") /\ Has(entry.request, "url") /\ entry.request.url # <<>>
    THEN entry.request.url
    ELSE IF Has(entry, "url") /\ entry.url # <<>> THEN entry.url
    ELSE <<>>

\* variant: a type that is in no list of TYPE_MAP counts as a fetch
TypeMapLookupDefaultFetch(resourceType, k) ==
    IF \E j \in 1..Len(TYPE_MAP) : resourceType \in TYPE_MAP[j][2]
    THEN TYPE_MAP[CHOOSE j \in 1..Len(TYPE_MAP) : resourceType \in TYPE_MAP[j][2]][1]
    ELSE "fetch"

RECURSIVE TypeMapLookup(_, _)
TypeMapLookup(resourceType, k) ==
    IF k > Len(TYPE_MAP) THEN "other"
    ELSE IF resourceType \in TYPE_MAP[k][2] THEN TYPE_MAP[k][1]
    ELSE TypeMapLookup(resourceType, k + 1)

getFilterType(entry) ==
    LET resourceType == IF TruthyStr(entry, "resourceType") THEN entry.resourceType ELSE ""
    IN  IF resourceType = "XHR" \/ resourceType = "Fetch"
        THEN LET url == EntryUrl(entry)
             IN  IF URLThrows(url) THEN "fetch"
                 ELSE LET pathname == URLPathname(url)
                          dot == lastIndexOfDot(pathname)
                          ext == toLowerCase(SubSeq(pathname, dot + 1, Len(pathname)))
                      IN  IF dot # -1 /\ ext \in DOMAIN STATIC_EXT_MAP
                          THEN STATIC_EXT_MAP[ext]
                          ELSE "fetch"
        ELSE TypeMapLookup(resourceType, 1)

(***************************************************************************)
(* NetworkDetail: the initiator stack.  The rendering is the sequence of   *)
(* the lines (div elements) in document order.                             *)
(***************************************************************************)
\* src.includes("node_modules"), for the source paths of the model
IncludesNodeModules(src) == src \in { "/node_modules/react/index.js" }

\* (n || 0) + 1 for an optional number field
OneBased(frame, f) == (IF TruthyNum(frame, f) THEN frame[f] ELSE 0) + 1

\* the text of the location span, as the sequence of its pieces
FrameLocation(frame) ==
    IF TruthyStr(frame, "originalSource")
    THEN <<frame.originalSource, ":", ToString(OneBased(frame, "originalLine")),
           ":", ToString(OneBased(frame, "originalColumn"))>>
    ELSE IF TruthyStr(frame, "url")
         THEN <<frame.url, ":", ToString(OneBased(frame, "lineNumber")),
                ":", ToString(OneBased(frame, "columnNumber"))>>
         ELSE <<>>

\* the div of one call frame
FrameLine(frame) ==
    LET src == IF TruthyStr(frame, "originalSource") THEN frame.originalSource
               ELSE IF TruthyStr(frame, "url") THEN frame.url ELSE ""
    IN  [kind |-> "frame",
         fnName |-> IF TruthyStr(frame, "originalName") THEN frame.originalName
                    ELSE IF TruthyStr(frame, "functionName") THEN frame.functionName
                    ELSE "(anonymous)",
         location |-> FrameLocation(frame),
         isVendor |-> IncludesNodeModules(src)]

\* --- {stack.parent.description || "async"} ---
SeparatorLine(parent) ==
    [kind |-> "separator",
     label |-> IF TruthyStr(parent, "description") THEN parent.description ELSE "async"]

\* stack.callFrames || []
CallFrames(stack) == IF Has(stack, "callFrames") THEN stack.callFrames ELSE <<>>

\* variant: the frames of vendored sources are left out
ShownFramesWithoutVendor(stack) ==
    SelectSeq(CallFrames(stack), LAMBDA frame : ~FrameLine(frame).isVendor)

\* the frames InitiatorStack maps over
ShownFrames(stack) == CallFrames(stack)

RECURSIVE InitiatorStack(_)
InitiatorStack(stack) ==
    LET frames == CallFrames(stack)
    IN  IF Len(frames) = 0 /\ ~Has(stack, "parent") THEN <<>>
        ELSE [i \in 1..Len(ShownFrames(stack)) |-> FrameLine(ShownFrames(stack)[i])]
             \o (IF Has(stack, "parent")
                 THEN <<SeparatorLine(stack.parent)>> \o InitiatorStack(stack.parent)
                 ELSE <<>>)

\* {entry.initiator && ... entry.initiator.stack && <InitiatorStack .../>}
DetailInitiatorStack(entry) ==
    IF Has(entry, "initiator") /\ Has(entry.initiator, "stack")
    THEN InitiatorStack(entry.initiator.stack)
    ELSE <<>>

(***************************************************************************)
(* Timeline correlation: the useMemo bodies of ConsoleViewer and            *)
(* NetworkViewer.  The two viewers run the same scan; they differ in the    *)
(* category field of a processed entry.                                    *)
(***************************************************************************)
\* closestDist >= 1500
HighlightWindowMs == 1500

ConsoleProcessedEntries(entries) ==
    [i \in 1..Len(entries) |->
        [entry |-> entries[i], index |-> i - 1,
         level |-> getLevel(entries[i]), category |-> getFilterLevel(entries[i])]]

\* variant: the category is written into the event itself
NetworkProcessedEntriesInPlace(entries) ==
    [i \in 1..Len(entries) |->
        [entry |-> ("filterType" :> getFilterType(entries[i])) @@ entries[i],
         index |-> i - 1, category |-> getFilterType(entries[i])]]

NetworkProcessedEntries(entries) ==
    [i \in 1..Len(entries) |->
        [entry |-> entries[i], index |-> i - 1, category |-> getFilterType(entries[i])]]

\* variant: pe.entry.relativeMs < currentTimeMs
InTimeStrict(pe, t) == pe.entry.relativeMs # NaN /\ pe.entry.relativeMs < t

\* variant: pe.entry.relativeMs >= currentTimeMs
InTimeReversed(pe, t) == pe.entry.relativeMs # NaN /\ pe.entry.relativeMs >= t

\* pe.entry.relativeMs <= currentTimeMs
InTime(pe, t) == Leq(pe.entry.relativeMs, t)

\* variant: dist <= closestDist
IsCloserOrEqual(dist, closest) == closest.infinite \/ dist <= closest.closestDist

\* dist < closestDist, closestDist starting at Infinity
IsCloser(dist, closest) == closest.infinite \/ dist < closest.closestDist

\* the filter callback run over processedEntries[k..]: the closest entry so far
RECURSIVE ScanClosest(_, _, _, _)
ScanClosest(processed, t, k, closest) ==
    IF k > Len(processed) THEN closest
    ELSE LET pe == processed[k]
             dist == Abs(pe.entry.relativeMs - t)
         IN  IF ~InTime(pe, t) THEN ScanClosest(processed, t, k + 1, closest)
             ELSE IF IsCloser(dist, closest)
                  THEN ScanClosest(processed, t, k + 1,
                           [closestIdx |-> pe.index, closestDist |-> dist, infinite |-> FALSE])
                  ELSE ScanClosest(processed, t, k + 1, closest)

\* variant: closestDist > 1500
OutsideWindowExclusive(closest) == closest.infinite \/ closest.closestDist > 1500

\* if (closestDist >= 1500) closestIdx = -1
OutsideWindow(closest) == closest.infinite \/ closest.closestDist >= HighlightWindowMs

SelectVisible(processed, t) == SelectSeq(processed, LAMBDA pe : InTime(pe, t))

ApplyFilter(visible, activeFilter) ==
    IF activeFilter = "all" THEN visible
    ELSE SelectSeq(visible, LAMBDA pe : pe.category = activeFilter)

\* variant: the closest entry is looked for among the entries the filter keeps
CorrelateFilteredFirst(processed, t, activeFilter) ==
    LET closest == ScanClosest(ApplyFilter(processed, activeFilter), t, 1,
                       [closestIdx |-> -1, closestDist |-> 0, infinite |-> TRUE])
    IN  [closestIndex |-> IF OutsideWindow(closest) THEN -1 ELSE closest.closestIdx,
         visibleEntries |-> ApplyFilter(SelectVisible(processed, t), activeFilter)]

\* { closestIndex, visibleEntries } for a stream, a playback time and a filter
Correlate(processed, t, activeFilter) ==
    LET closest == ScanClosest(processed, t, 1,
                       [closestIdx |-> -1, closestDist |-> 0, infinite |-> TRUE])
    IN  [closestIndex |-> IF OutsideWindow(closest) THEN -1 ELSE closest.closestIdx,
         visibleEntries |-> ApplyFilter(SelectVisible(processed, t), activeFilter)]

ConsoleQuery(entries, t, activeFilter) ==
    Correlate(ConsoleProcessedEntries(entries), t, activeFilter)

NetworkQuery(entries, t, activeTypeFilter) ==
    Correlate(NetworkProcessedEntries(entries), t, activeTypeFilter)

(***************************************************************************)
(* The viewer components: state (active filter) and the memoised result.   *)
(***************************************************************************)
Unmounted == [mounted |-> FALSE]

\* useState<number | null>(null): the value null of expandedIndex
NoIndex == -1

\* variant: activeFilter is missing from the dependency array
DepsChangedWithoutFilter(old, new) ==
    \/ old.entries # new.entries
    \/ old.currentTimeMs # new.currentTimeMs

\* useMemo: the dependencies are compared one by one
DepsChanged(old, new) ==
    \/ old.entries # new.entries
    \/ old.currentTimeMs # new.currentTimeMs
    \/ old.activeFilter # new.activeFilter

\* first render of a ConsoleViewer: useState("all"), the memo is computed
MountConsoleViewer(entries, t) ==
    LET q == ConsoleQuery(entries, t, "all")
    IN  [mounted |-> TRUE, activeFilter |-> "all",
         deps |-> [entries |-> entries, currentTimeMs |-> t, activeFilter |-> "all"],
         closestIndex |-> q.closestIndex, visibleEntries |-> q.visibleEntries,
         expandedIndex |-> NoIndex]

\* a later render with props (entries, t) and state activeFilter
RenderConsoleViewer(viewer, entries, t, activeFilter) ==
    IF ~viewer.mounted THEN viewer
    ELSE LET deps == [entries |-> entries, currentTimeMs |-> t, activeFilter |-> activeFilter]
             q == ConsoleQuery(entries, t, activeFilter)
         IN  IF DepsChanged(viewer.deps, deps)
             THEN [mounted |-> TRUE, activeFilter |-> activeFilter, deps |-> deps,
                   closestIndex |-> q.closestIndex, visibleEntries |-> q.visibleEntries,
                   expandedIndex |-> viewer.expandedIndex]
             ELSE [viewer EXCEPT !.activeFilter = activeFilter]

MountNetworkViewer(entries, t) ==
    LET q == NetworkQuery(entries, t, "all")
    IN  [mounted |-> TRUE, activeFilter |-> "all",
         deps |-> [entries |-> entries, currentTimeMs |-> t, activeFilter |-> "all"],
         closestIndex |-> q.closestIndex, visibleEntries |-> q.visibleEntries,
         visibleCount |-> Len(q.visibleEntries), expandedIndex |-> NoIndex]

RenderNetworkViewer(viewer, entries, t, activeTypeFilter) ==
    IF ~viewer.mounted THEN viewer
    ELSE LET deps == [entries |-> entries, currentTimeMs |-> t, activeFilter |-> activeTypeFilter]
             q == NetworkQuery(entries, t, activeTypeFilter)
         IN  IF DepsChanged(viewer.deps, deps)
             THEN [mounted |-> TRUE, activeFilter |-> activeTypeFilter, deps |-> deps,
                   closestIndex |-> q.closestIndex, visibleEntries |-> q.visibleEntries,
                   visibleCount |-> Len(q.visibleEntries),
                   expandedIndex |-> viewer.expandedIndex]
             ELSE [viewer EXCEPT !.activeFilter = activeTypeFilter]

\* webSocketLogs.length (undefined, here NaN, when the value is not an array)
WsLength(ws) == IF IsArray(ws) THEN Len(ws.array) ELSE NaN

\* variant: the websocket suffix is always appended
WsSuffixAlways(ws) == <<" | ", ToString(WsLength(ws)), " WS">>

\* if (webSocketLogs.length > 0) text += ` | ${webSocketLogs.length} WS`
WsSuffix(ws) ==
    IF WsLength(ws) # NaN /\ WsLength(ws) > 0
    THEN <<" | ", ToString(WsLength(ws)), " WS">>
    ELSE <<>>

\* summaryText of NetworkViewer, as the sequence of the pieces of the string
SummaryText(viewer, entries, ws) ==
    <<ToString(viewer.visibleCount), "/", ToString(Len(entries)), " requests">>
    \o (IF viewer.activeFilter # "all" THEN <<" (", viewer.activeFilter, ")">> ELSE <<>>)
    \o WsSuffix(ws)

\* setExpandedIndex((prev) => (prev === index ? null : index))
ToggleIndex(prev, index) == IF prev = index THEN NoIndex ELSE index

(***************************************************************************)
(* The recording store (disk-store.ts) and the routes in front of it.      *)
(* A directory is the record of its files: video (recording.webm),         *)
(* consoleLogs (console-logs.json), networkRequests                        *)
(* (network-requests.json), webSocketLogs (websocket-logs.json) and        *)
(* metadata (metadata.json).  The text files hold the uploaded text;       *)
(* metadata.json holds JSON.stringify(meta), kept here as the object it    *)
(* parses back to.                                                         *)
(***************************************************************************)
HexDigits == { "0", "1", "2", "3", "4", "5", "6", "7", "8", "9", "a", "b", "c", "d", "e", "f" }

\* ids generateId draws: crypto.randomBytes(4).toString("hex"), two digits here
GeneratedIds == { <<"0", "a">> }

\* the id generateId falls back to: crypto.randomBytes(8).toString("hex"),
\* four digits here
LongIds == { <<"0", "a", "0", "a">> }

\* path.join(DATA_DIR, "..") names the directory above the data directory
ParentPath == <<".", ".">>

\* the :id of a request
RequestIds == GeneratedIds \cup LongIds \cup { <<"f", "f">>, <<"0", "A">>, ParentPath, <<>> }

NoDirectory == [exists |-> FALSE]

EmptyDisk == [id \in GeneratedIds \cup LongIds |-> NoDirectory]

\* a directory outside the data directory that holds files of the names the
\* store uses
OutsideDirectory ==
    [exists |-> TRUE,
     files |-> [metadata |-> [url |-> "outside"], consoleLogs |-> "[]",
                networkRequests |-> "[]", video |-> "outside"]]

\* the file system when the server starts
InitialDisk == EmptyDisk @@ (ParentPath :> OutsideDirectory)

\* the ids generateId can return: a short id drawn in one of the ten
\* attempts that names no directory, or, when every attempt drew the id of a
\* directory that exists, a long id, which is returned as drawn
generateId(files) ==
    { id \in GeneratedIds : ~files[id].exists }
    \cup (IF \E id \in GeneratedIds : files[id].exists THEN LongIds ELSE {})

NoReply == [route |-> "none", status |-> 0]

\* new Date().toISOString() at the time of the upload
ServerClock == "1970-01-01T00:00:02.000Z"

\* JSON.parse of the texts of the model that are JSON
JsonTexts ==
    ("[]" :> JsonArray(<<>>)) @@
    ("{}" :> EmptyObject) @@
    ("null" :> JsonNull) @@
    ("[{\"timestamp\":1500}]" :> JsonArray(<<[timestamp |-> 1500]>>)) @@
    ("{\"startTime\":1000}" :> [startTime |-> 1000]) @@
    ("{\"id\":\"ff\",\"createdAt\":\"1970\"}" :> [id |-> <<"f", "f">>, createdAt |-> "1970"])

\* JSON.parse(text) throws a SyntaxError
JSONParseThrows(text) == text \notin DOMAIN JsonTexts

JSONParse(text) == JsonTexts[text]

\* the values of an optional multipart field; the empty record stands for a
\* request without the field
OptionalField(name, values) == { EmptyObject } \cup { name :> v : v \in values }

\* the multipart requests of the model: req.file and the text fields of
\* req.body.  A complete upload, an upload without any field, uploads whose
\* network text or metadata text is not JSON, and uploads whose metadata is
\* null, an array, or carries an id and a creation time of its own
Uploads ==
    { [video |-> "webm", consoleLogs |-> "[{\"timestamp\":1500}]", networkRequests |-> "[]",
       webSocketLogs |-> "[]", metadata |-> "{\"startTime\":1000}"],
      EmptyObject,
      [consoleLogs |-> "[{\"timestamp\":1500}]", networkRequests |-> "{",
       metadata |-> "{\"startTime\":1000}"],
      [video |-> "webm", consoleLogs |-> "[{\"timestamp\":1500}]", metadata |-> "null"],
      [consoleLogs |-> "[{\"timestamp\":1500}]", networkRequests |-> "[]", metadata |-> "[]"],
      [networkRequests |-> "[]", webSocketLogs |-> "",
       metadata |-> "{\"id\":\"ff\",\"createdAt\":\"1970\"}"],
      [consoleLogs |-> "[]", metadata |-> "{"] }

\* text || fallback
TextOr(upload, f, fallback) == IF TruthyStr(upload, f) THEN upload[f] ELSE fallback

\* let meta = {}; try { meta = JSON.parse(metadata || "{}") } catch {}
ParsedMetadata(upload) ==
    LET text == TextOr(upload, "metadata", "{}")
    IN  IF JSONParseThrows(text) THEN EmptyObject ELSE JSONParse(text)

\* meta.id = id throws a TypeError: meta is null
SaveThrows(upload) == ~Truthy(ParsedMetadata(upload))

\* JSON.stringify(meta, null, 2) after meta.id = id and meta.createdAt = ...,
\* as the value the file parses back to: the two fields replace the ones the
\* client sent; properties set on an array are not serialised
StoredMetadata(meta, id) ==
    IF IsArray(meta) THEN meta
    ELSE ("id" :> id) @@ ("createdAt" :> ServerClock) @@ meta

\* variant: metadata.json is written before the other files
WriteOrderMetadataFirst(upload) ==
    <<"metadata">>
    \o (IF Has(upload, "video") THEN <<"video">> ELSE <<>>)
    \o <<"consoleLogs", "networkRequests">>
    \o (IF TruthyStr(upload, "webSocketLogs") THEN <<"webSocketLogs">> ELSE <<>>)

\* the files saveRecording writes for an upload, in the order of its
\* writeFileSync calls
WriteOrder(upload) ==
    (IF Has(upload, "video") THEN <<"video">> ELSE <<>>)
    \o <<"consoleLogs", "networkRequests">>
    \o (IF TruthyStr(upload, "webSocketLogs") THEN <<"webSocketLogs">> ELSE <<>>)
    \o <<"metadata">>

\* what saveRecording writes into a file
FileContent(upload, id, name) ==
    CASE name = "video" -> upload.video
      [] name = "consoleLogs" -> TextOr(upload, "consoleLogs", "[]")
      [] name = "networkRequests" -> TextOr(upload, "networkRequests", "{}")
      [] name = "webSocketLogs" -> upload.webSocketLogs
      [] name = "metadata" -> StoredMetadata(ParsedMetadata(upload), id)

\* the files of the directory after the first n writes of saveRecording; a
\* file that is already there is overwritten
RECURSIVE WrittenFiles(_, _, _, _)
WrittenFiles(before, upload, id, n) ==
    IF n = 0 THEN before
    ELSE (WriteOrder(upload)[n] :> FileContent(upload, id, WriteOrder(upload)[n]))
         @@ WrittenFiles(before, upload, id, n - 1)

\* the numbers of writes after which saveRecording can stop: none (the first
\* writeFileSync fails), all but metadata.json, or all of them
WriteCounts(upload) == { 0, Len(WriteOrder(upload)) - 1, Len(WriteOrder(upload)) }

\* the files of a new directory when saveRecording has returned
SavedFiles(upload, id) == WrittenFiles(EmptyObject, upload, id, Len(WriteOrder(upload)))

\* /^[a-f0-9]+$/.test(id)
IsHexId(id) == id # <<>> /\ \A i \in 1..Len(id) : id[i] \in HexDigits

\* variant: the pattern of the id is not tested
existsAnyId(files, id) ==
    id \in DOMAIN files /\ files[id].exists /\ Has(files[id].files, "metadata")

\* exists(id): the id is hexadecimal and its directory holds metadata.json
exists(files, id) ==
    /\ IsHexId(id)
    /\ id \in DOMAIN files /\ files[id].exists /\ Has(files[id].files, "metadata")

\* one of the JSON.parse calls of getRecording throws
getRecordingThrows(files, id) ==
    LET dir == files[id].files
    IN  \/ JSONParseThrows(dir.consoleLogs)
        \/ JSONParseThrows(dir.networkRequests)
        \/ Has(dir, "webSocketLogs") /\ JSONParseThrows(dir.webSocketLogs)

\* getRecording(id) when it returns a recording
getRecording(files, id) ==
    LET dir == files[id].files
    IN  [metadata |-> dir.metadata,
         consoleLogs |-> JSONParse(dir.consoleLogs),
         networkRequests |-> JSONParse(dir.networkRequests),
         webSocketLogs |-> IF Has(dir, "webSocketLogs")
                           THEN JSONParse(dir.webSocketLogs) ELSE JsonArray(<<>>)]

\* getVideoPath(id) returns a path
hasVideoPath(files, id) == exists(files, id) /\ Has(files[id].files, "video")

\* GET /api/recordings/:id; a handler that throws is answered by the
\* default error handler of express with status 500
RecordingsRoute(files, id) ==
    IF ~exists(files, id)
    THEN [route |-> "recording", id |-> id, status |-> 404, body |-> NotFoundResponse]
    ELSE IF getRecordingThrows(files, id)
         THEN [route |-> "recording", id |-> id, status |-> 500]
         ELSE [route |-> "recording", id |-> id, status |-> 200,
               body |-> ("ok" :> TRUE) @@ getRecording(files, id)]

\* GET /api/recordings/:id/video
VideoRoute(files, id) ==
    IF ~hasVideoPath(files, id)
    THEN [route |-> "video", id |-> id, status |-> 404,
          body |-> [ok |-> FALSE, error |-> "Video not found"]]
    ELSE [route |-> "video", id |-> id, status |-> 200, file |-> files[id].files.video]

(***************************************************************************)
(* State machine.                                                          *)
(***************************************************************************)
\* if (now - lastEmitRef.current < 250) return
TimeUpdateThrottleMs == 250

\* elapsed real time between two steps of the model (ms)
ClockSteps == { 125, 250 }

InitialVideo == [currentTime |-> 0, paused |-> TRUE]
InitialPlayer == [lastEmitRef |-> 0, currentTime |-> 0, playing |-> FALSE]

InitWith(bundles) ==
    /\ response \in bundles
    /\ now = 0
    /\ loading = TRUE
    /\ startTime = 0
    /\ consoleLogs = <<>>
    /\ networkRequests = <<>>
    /\ activeTab = "console"
    /\ currentTimeMs = 0
    /\ video = InitialVideo
    /\ player = InitialPlayer
    /\ consoleViewer = Unmounted
    /\ networkViewer = Unmounted
    /\ error = FALSE
    /\ webSocketLogs = JsonArray(<<>>)
    /\ markers = <<>>
    /\ disk = InitialDisk
    /\ reply = NoReply

\* the bundle of the end-to-end scenario and a bundle with unsorted lists,
\* equal timestamps and an event before the session start
PlayerBundles ==
    { Bundle([startTime |-> 1000],
             << [timestamp |-> 1500, source |-> "console", level |-> "log"] >>,
             << [wallTime |-> 2200, timestamp |-> 7300, resourceType |-> "XHR",
                 request |-> [url |-> <<"/", "a", ".", "p", "n", "g", "?", "x", "=", "1">>]] >>),
      Bundle([timestamp |-> "1970-01-01T00:00:01.000Z"],
             << [timestamp |-> 1500, source |-> "exception", level |-> "warn"],
                [timestamp |-> 900, level |-> "trace"] >>,
             << [timestamp |-> 1500, resourceType |-> "Script",
                 url |-> <<"/", "a", "p", "p", ".", "J", "S">>],
                [wallTime |-> 0, timestamp |-> 900, resourceType |-> "Ping",
                 url |-> <<"h", "t", "t", "p", ":", "/", "/">>] >>) }

Init == InitWith(PlayerBundles)

InitQuery == InitWith(QueryBundles)

\* variant: now - lastEmitRef.current < 125
ThrottledHalfWindow(nowMs, lastEmit) == nowMs - lastEmit < 125

\* whether the timeupdate handler returns before emitting
Throttled(nowMs, lastEmit) == nowMs - lastEmit < TimeUpdateThrottleMs

\* VideoPlayer.handleTimeUpdate followed by App.handleTimeUpdate and the
\* render of the mounted viewer; v is the video element at the time of the event
HandleTimeUpdate(v, nowMs) ==
    IF Throttled(nowMs, player.lastEmitRef)
    THEN UNCHANGED <<player, currentTimeMs, consoleViewer, networkViewer>>
    ELSE LET ms == Times1000(v.currentTime)
         IN  /\ player' = [player EXCEPT !.lastEmitRef = nowMs, !.currentTime = ms]
             /\ currentTimeMs' = ms
             /\ consoleViewer' = RenderConsoleViewer(consoleViewer, consoleLogs, ms,
                                     IF consoleViewer.mounted THEN consoleViewer.activeFilter ELSE "all")
             /\ networkViewer' = RenderNetworkViewer(networkViewer, networkRequests, ms,
                                     IF networkViewer.mounted THEN networkViewer.activeFilter ELSE "all")

\* the markers useMemo on a render of App
RenderMarkers ==
    markers' = UseMemoMarkers(markers, <<consoleLogs, networkRequests>>,
                              <<consoleLogs', networkRequests'>>)

\* the .then handler of fetch(`/api/recordings/${recordingId}`) and the
\* .catch handler behind it: normalisation, then the render of App, which is
\* the error page or the first render of VideoPlayer and of the viewer of the
\* active tab
LoadRecording ==
    /\ loading
    /\ loading' = FALSE
    /\ IF ~response.ok
       THEN /\ error' = TRUE
            /\ UNCHANGED <<startTime, consoleLogs, networkRequests, webSocketLogs>>
       ELSE LET st == SessionStart(response.metadata)
            IN  /\ startTime' = st
                /\ consoleLogs' = NormalizeConsole(response.consoleLogs, st)
                /\ IF NetworkThrows(response.networkRequests)
                   THEN /\ error' = TRUE
                        /\ UNCHANGED <<networkRequests, webSocketLogs>>
                   ELSE /\ error' = FALSE
                        /\ networkRequests' = NormalizeNetwork(response.networkRequests, st)
                        /\ webSocketLogs' = NormalizeWebSocketLogs(response)
    /\ RenderMarkers
    /\ consoleViewer' = IF ~error' /\ activeTab = "console"
                        THEN MountConsoleViewer(consoleLogs', currentTimeMs) ELSE Unmounted
    /\ networkViewer' = IF ~error' /\ activeTab = "network"
                        THEN MountNetworkViewer(networkRequests', currentTimeMs) ELSE Unmounted
    /\ video' = InitialVideo
    /\ player' = InitialPlayer
    /\ UNCHANGED <<response, now, activeTab, currentTimeMs>>
    /\ UNCHANGED serverVars

\* real time passes without any event
Wait ==
    \E d \in ClockSteps :
        /\ now + d <= MaxNow
        /\ now' = now + d
        /\ UNCHANGED <<response, loading, startTime, consoleLogs, networkRequests, activeTab,
                       currentTimeMs, video, player, consoleViewer, networkViewer>>
        /\ UNCHANGED <<error, webSocketLogs, markers>>
        /\ UNCHANGED serverVars

\* togglePlayPause: v.play() fires play; v.pause() fires timeupdate, then pause
TogglePlayPause ==
    /\ ~loading /\ ~error
    /\ IF video.paused
       THEN /\ video' = [video EXCEPT !.paused = FALSE]
            /\ player' = [player EXCEPT !.playing = TRUE]
            /\ UNCHANGED <<currentTimeMs, consoleViewer, networkViewer>>
       ELSE /\ video' = [video EXCEPT !.paused = TRUE]
            /\ IF Throttled(now, player.lastEmitRef)
               THEN /\ player' = [player EXCEPT !.playing = FALSE]
                    /\ UNCHANGED <<currentTimeMs, consoleViewer, networkViewer>>
               ELSE LET ms == Times1000(video.currentTime)
                    IN  /\ player' = [lastEmitRef |-> now, currentTime |-> ms, playing |-> FALSE]
                        /\ currentTimeMs' = ms
                        /\ consoleViewer' = RenderConsoleViewer(consoleViewer, consoleLogs, ms,
                                     IF consoleViewer.mounted THEN consoleViewer.activeFilter ELSE "all")
                        /\ networkViewer' = RenderNetworkViewer(networkViewer, networkRequests, ms,
                                     IF networkViewer.mounted THEN networkViewer.activeFilter ELSE "all")
    /\ UNCHANGED <<response, now, loading, startTime, consoleLogs, networkRequests, activeTab>>
    /\ UNCHANGED <<error, webSocketLogs>>
    /\ RenderMarkers
    /\ UNCHANGED serverVars

\* the video plays for d ms at speed 1 and the element fires timeupdate
Playback ==
    \E d \in ClockSteps :
        /\ ~loading /\ ~error
        /\ ~video.paused
        /\ now + d <= MaxNow
        /\ now' = now + d
        /\ video' = [video EXCEPT !.currentTime = video.currentTime + d]
        /\ HandleTimeUpdate(video', now')
        /\ UNCHANGED <<response, loading, startTime, consoleLogs, networkRequests, activeTab>>
        /\ UNCHANGED <<error, webSocketLogs>>
        /\ RenderMarkers
        /\ UNCHANGED serverVars

\* the user seeks (progress bar, arrow keys): v.currentTime is set and the
\* element fires seeked; VideoPlayer.handleSeeked, App.handleTimeUpdate, render
Seek ==
    \E t \in Times :
        /\ ~loading /\ ~error
        /\ video' = [video EXCEPT !.currentTime = t]
        /\ LET ms == Times1000(t)
           IN  /\ player' = [player EXCEPT !.currentTime = ms]
               /\ currentTimeMs' = ms
               /\ consoleViewer' = RenderConsoleViewer(consoleViewer, consoleLogs, ms,
                                     IF consoleViewer.mounted THEN consoleViewer.activeFilter ELSE "all")
               /\ networkViewer' = RenderNetworkViewer(networkViewer, networkRequests, ms,
                                     IF networkViewer.mounted THEN networkViewer.activeFilter ELSE "all")
        /\ UNCHANGED <<response, now, loading, startTime, consoleLogs, networkRequests, activeTab>>
        /\ UNCHANGED <<error, webSocketLogs>>
        /\ RenderMarkers
        /\ UNCHANGED serverVars

\* a click on a level button of ConsoleViewer
SetActiveFilter ==
    \E level \in { FILTER_LEVELS[i] : i \in 1..Len(FILTER_LEVELS) } :
        /\ consoleViewer.mounted
        /\ consoleViewer' = RenderConsoleViewer(consoleViewer, consoleLogs, currentTimeMs, level)
        /\ UNCHANGED <<response, now, loading, startTime, consoleLogs, networkRequests, activeTab,
                       currentTimeMs, video, player, networkViewer>>
        /\ UNCHANGED <<error, webSocketLogs, markers>>
        /\ UNCHANGED serverVars

\* a click on a type button of NetworkViewer
SetActiveTypeFilter ==
    \E type \in { FILTER_TYPES[i] : i \in 1..Len(FILTER_TYPES) } :
        /\ networkViewer.mounted
        /\ networkViewer' = RenderNetworkViewer(networkViewer, networkRequests, currentTimeMs, type)
        /\ UNCHANGED <<response, now, loading, startTime, consoleLogs, networkRequests, activeTab,
                       currentTimeMs, video, player, consoleViewer>>
        /\ UNCHANGED <<error, webSocketLogs, markers>>
        /\ UNCHANGED serverVars

\* a click on a tab button of App: the viewer of the other tab is unmounted
\* and the viewer of the chosen tab is mounted with fresh state
SetActiveTab ==
    \E tab \in { "console", "network" } :
        /\ ~loading /\ ~error
        /\ tab # activeTab
        /\ activeTab' = tab
        /\ consoleViewer' = IF tab = "console"
                            THEN MountConsoleViewer(consoleLogs, currentTimeMs) ELSE Unmounted
        /\ networkViewer' = IF tab = "network"
                            THEN MountNetworkViewer(networkRequests, currentTimeMs) ELSE Unmounted
        /\ UNCHANGED <<response, now, loading, startTime, consoleLogs, networkRequests,
                       currentTimeMs, video, player>>
        /\ UNCHANGED <<error, webSocketLogs>>
        /\ RenderMarkers
        /\ UNCHANGED serverVars

\* a click on a row of ConsoleViewer: handleEntryClick
HandleEntryClick ==
    /\ consoleViewer.mounted
    /\ \E k \in 1..Len(consoleViewer.visibleEntries) :
          consoleViewer' = [consoleViewer EXCEPT !.expandedIndex =
                               ToggleIndex(@, consoleViewer.visibleEntries[k].index)]
    /\ UNCHANGED <<response, now, loading, startTime, consoleLogs, networkRequests, activeTab,
                   currentTimeMs, video, player, networkViewer>>
    /\ UNCHANGED <<error, webSocketLogs, markers>>
    /\ UNCHANGED serverVars

\* a click on a row of NetworkViewer: the detail of the row opens or closes
SetExpandedIndex ==
    /\ networkViewer.mounted
    /\ \E k \in 1..Len(networkViewer.visibleEntries) :
          networkViewer' = [networkViewer EXCEPT !.expandedIndex =
                               ToggleIndex(@, networkViewer.visibleEntries[k].index)]
    /\ UNCHANGED <<response, now, loading, startTime, consoleLogs, networkRequests, activeTab,
                   currentTimeMs, video, player, consoleViewer>>
    /\ UNCHANGED <<error, webSocketLogs, markers>>
    /\ UNCHANGED serverVars

\* POST /api/recordings: saveRecording, then the reply.  saveRecording
\* returns after its last write, or throws after n of its writes: at
\* meta.id = id when the metadata is null, or in a writeFileSync call that
\* fails.  The directory keeps the request that was acknowledged for it.
Upload ==
    \E upload \in Uploads, id \in generateId(disk) :
        \E n \in WriteCounts(upload) :
            LET returns == n = Len(WriteOrder(upload))
                before == IF disk[id].exists THEN disk[id] ELSE [exists |-> TRUE, files |-> EmptyObject]
            IN  /\ SaveThrows(upload) => ~returns
                /\ ~disk[id].exists =>
                      Cardinality({ d \in DOMAIN EmptyDisk : disk[d].exists }) < MaxRecordings
                /\ disk' = [disk EXCEPT ![id] =
                               (IF returns THEN "request" :> upload ELSE EmptyObject)
                               @@ [before EXCEPT !.files = WrittenFiles(@, upload, id, n)]]
                /\ reply' = IF returns
                            THEN [route |-> "upload", status |-> 201,
                                  body |-> [ok |-> TRUE, id |-> id]]
                            ELSE [route |-> "upload", status |-> 500, body |-> [ok |-> FALSE]]
                /\ UNCHANGED clientVars

\* GET /api/recordings/:id
GetRecording ==
    \E id \in RequestIds :
        /\ reply' = RecordingsRoute(disk, id)
        /\ UNCHANGED disk
        /\ UNCHANGED clientVars

\* GET /api/recordings/:id/video
GetVideo ==
    \E id \in RequestIds :
        /\ reply' = VideoRoute(disk, id)
        /\ UNCHANGED disk
        /\ UNCHANGED clientVars

Next ==
    \/ LoadRecording
    \/ Wait
    \/ TogglePlayPause
    \/ Playback
    \/ Seek
    \/ SetActiveFilter
    \/ SetActiveTypeFilter
    \/ SetActiveTab
    \/ HandleEntryClick
    \/ SetExpandedIndex

Spec == Init /\ [][Next]_vars

\* the viewer driven by seeks and filter changes only, over all bundles
NextQuery ==
    \/ LoadRecording
    \/ Seek
    \/ SetActiveFilter
    \/ SetActiveTypeFilter
    \/ SetActiveTab

SpecQuery == InitQuery /\ [][NextQuery]_vars

\* websocket connections of a recording
WsPool == { [url |-> "ws://app.test/live", frames |-> <<>>] }

\* the shapes a network payload comes in, for a list n of events
NetworkPayloads ==
    LET lists == SeqsUpTo(NetworkPool, MaxEvents)
    IN  { JsonArray(n) : n \in lists }
        \cup { [log |-> [entries |-> JsonArray(n)]] : n \in lists }
        \cup { [entries |-> JsonArray(n)] : n \in { m \in lists : Len(m) = 1 } }
        \cup { EmptyObject, JsonNull, [log |-> EmptyObject], [log |-> JsonNull],
               [log |-> [entries |-> JsonNull]], [log |-> [entries |-> EmptyObject]] }

WebSocketPayloads == { JsonArray(w) : w \in SeqsUpTo(WsPool, MaxEvents) } \cup { JsonNull }

\* recordings whose network and websocket payloads take every shape
ShapeBundles ==
    { Response([startTime |-> 1000],
               << [timestamp |-> 1500, source |-> "console", level |-> "log"] >>, nd, ws) :
        nd \in NetworkPayloads, ws \in WebSocketPayloads }

InitShapes == InitWith(ShapeBundles)

SpecShapes == InitShapes /\ [][NextQuery]_vars

\* a text of n characters
Chars(n, c) == [i \in 1..n |-> c]

\* console entries for the markers: levels, source kinds, messages
MarkerConsolePool ==
    { [timestamp |-> 1500, source |-> "console", level |-> "error",
       message |-> Chars(MarkerLabelLimit + 1, "m")],
      [timestamp |-> 1500, source |-> "exception", level |-> "warn",
       args |-> << [description |-> <<"T", "y", "p", "e", "E", "r", "r", "o", "r">>] >>],
      [timestamp |-> 2200, source |-> "browser"],
      [timestamp |-> 900, source |-> "browser", level |-> "error",
       message |-> <<"4", "0", "4">>],
      [timestamp |-> 1500, source |-> "console", level |-> "log", message |-> <<"o", "k">>],
      [timestamp |-> 1200, level |-> "error"] }

\* network entries for the markers: methods, URLs, status and error
MarkerNetworkPool ==
    { [wallTime |-> 2200, resourceType |-> "Fetch",
       request |-> [method |-> <<"P", "O", "S", "T">>,
                    url |-> <<"/">> \o Chars(MarkerLabelLimit + 9, "u")],
       response |-> [status |-> 500]],
      [timestamp |-> 1500, resourceType |-> "Script", url |-> <<"/", "a">>,
       error |-> "net::ERR_FAILED"],
      [wallTime |-> 1200, method |-> <<"P", "U", "T">>, status |-> 200] }

\* recordings for the marker projection
MarkerBundles ==
    LET lists == { cn \in SeqsUpTo(MarkerConsolePool, MaxEvents)
                             \X SeqsUpTo(MarkerNetworkPool, MaxEvents) :
                     Len(cn[1]) + Len(cn[2]) <= MaxEvents }
    IN  { Bundle([startTime |-> 1000], cn[1], cn[2]) : cn \in lists }

InitMarkers == InitWith(MarkerBundles)

SpecMarkers == InitMarkers /\ [][NextQuery]_vars

\* declared resource types: the ones of TYPE_MAP, others, the empty string
ResourceTypes ==
    { "XHR", "Fetch", "Script", "Stylesheet", "Image", "Font", "Media", "Document",
      "WebSocket", "Ping", "Manifest", "" }

\* request URLs: with and without extension, query, fragment, host
RequestUrls ==
    { <<"/", "a", ".", "p", "n", "g", "?", "x", "=", "1">>,
      <<"/", "a", "p", "p", ".", "J", "S">>,
      <<"h", "t", "t", "p", ":", "/", "/">>,
      <<"/", "a", "p", "i", "/", "u", "s", "e", "r", "s">>,
      <<"/", "v", "1", ".", "2", "/", "u", "s", "e", "r", "s">>,
      <<"/", "d", ".", "j", "s", "o", "n">>,
      <<"h", "t", "t", "p", ":", "/", "/", "h", ".", "i", "o", "/", "s", ".", "c", "s", "s",
        "#", "t", ".", "p", "n", "g">>,
      <<"h", "t", "t", "p", ":", "/", "/", "h", ".", "i", "o">>,
      <<"/", "f", ".", "w", "o", "f", "f", "2">>,
      <<"/", "v", ".", "m", "p", "4", "?", "t", "=", ".", "j", "s">>,
      <<"/", "i", ".", "h", "t", "m", "l">> }

\* one network entry for every declared type (or none) and URL (or none),
\* the URL flat or under request
ClassifyPool ==
    { ("timestamp" :> 1500) @@ t @@ u :
        t \in OptionalField("resourceType", ResourceTypes),
        u \in OptionalField("url", RequestUrls)
               \cup { "request" :> [url |-> v] :
                        v \in { w \in RequestUrls : w[1] = "/" /\ Len(w) = 10 } } }

\* recordings of one network entry
ClassifyBundles == { Bundle([startTime |-> 1000], <<>>, <<e>>) : e \in ClassifyPool }

InitClassify == InitWith(ClassifyBundles)

SpecClassify == InitClassify /\ [][NextQuery]_vars

\* call frames: raw location, source-mapped location, vendored and anonymous
FramePool ==
    { [functionName |-> "fetchData", url |-> "/app.js", lineNumber |-> 9, columnNumber |-> 4],
      [functionName |-> "a", originalName |-> "load", url |-> "/app.js", lineNumber |-> 0,
       originalSource |-> "src/api.ts", originalLine |-> 0],
      [url |-> "/node_modules/react/index.js"] }

\* the frame lists of a hop: callFrames missing, or a list of at most n frames
FrameLists(n) == { EmptyObject } \cup { [callFrames |-> fs] : fs \in SeqsUpTo(FramePool, n) }

\* the stacks with at most hops async parents and at most n call frames in all
RECURSIVE StacksUpTo(_, _)
StacksUpTo(hops, n) ==
    IF hops = 0 THEN FrameLists(n)
    ELSE FrameLists(n)
         \cup UNION { { head @@ ("parent" :> (d @@ parent)) :
                          d \in OptionalField("description", { "Promise.then" }),
                          parent \in StacksUpTo(hops - 1, n - Len(CallFrames(head))) } :
                      head \in FrameLists(n) }

\* recordings of one request that has happened at time 0, with its stack
StackBundles ==
    { Bundle([startTime |-> 1000], <<>>,
             << [wallTime |-> 1000, resourceType |-> "Fetch", url |-> <<"/", "a">>,
                 initiator |-> [type |-> "script", stack |-> stack]] >>) :
        stack \in StacksUpTo(MaxHops, MaxFrames) }

InitStack == InitWith(StackBundles)

\* the network tab with its rows opened and closed
NextStack ==
    \/ LoadRecording
    \/ SetActiveTab
    \/ SetExpandedIndex

SpecStack == InitStack /\ [][NextStack]_vars

\* the server: uploads and lookups
InitStore == InitWith({ NotFoundResponse })

NextStore ==
    \/ Upload
    \/ GetRecording
    \/ GetVideo

SpecStore == InitStore /\ [][NextStore]_vars

\* captured properties: numbers, a string, a nested array that overflowed
PropertyPool ==
    { [name |-> <<"0">>, type |-> "number", value |-> <<"1">>],
      [name |-> <<"1">>, type |-> "number", value |-> <<"2">>],
      [name |-> <<"a">>, type |-> "string", value |-> <<"<">>],
      [name |-> <<"b">>, type |-> "object", subtype |-> "array",
       value |-> <<"A", "r", "r", "a", "y", "(", "3", ")">>,
       valuePreview |-> [type |-> "object", subtype |-> "array",
                         description |-> <<"A", "r", "r", "a", "y", "(", "3", ")">>,
                         overflow |-> TRUE,
                         properties |-> << [name |-> <<"0">>, type |-> "number",
                                            value |-> <<"7">>] >>]] }

\* previews: array or plain object, the property list missing, empty or
\* captured, the overflow flag missing, false or true
PreviewPool ==
    { [type |-> "object"] @@ st @@ ps @@ ov :
        st \in OptionalField("subtype", { "array" }),
        ps \in OptionalField("properties", SeqsUpTo(PropertyPool, MaxProperties)),
        ov \in OptionalField("overflow", { TRUE, FALSE }) }

\* the arguments of a console call: numbers and objects with a preview
RemoteObjectPool ==
    { [type |-> "number", value |-> 42],
      [type |-> "number", value |-> 1000000,
       description |-> <<"1", "e", "+", "6">>] }
    \cup { [type |-> "object", preview |-> pv] @@ cn :
             pv \in PreviewPool,
             cn \in OptionalField("className", { <<"O", "b", "j", "e", "c", "t">>,
                                                 <<"F", "o", "o">> }) }

\* recordings of one console call with one argument
RenderBundles ==
    { Bundle([startTime |-> 1000],
             << [timestamp |-> 1500, source |-> "console", level |-> "log",
                 args |-> <<obj>>] >>, <<>>) :
        obj \in RemoteObjectPool }

InitRender == InitWith(RenderBundles)

\* the console tab: seeks, level filters, rows opened and closed
NextRender ==
    \/ LoadRecording
    \/ Seek
    \/ SetActiveFilter
    \/ HandleEntryClick

SpecRender == InitRender /\ [][NextRender]_vars

\* metadata with a session start, without one, with a timestamp that is not
\* a date, and the metadata saveRecording stores when the metadata text of
\* the upload does not parse: the id and createdAt of the server only
UntimedMetadataPool ==
    { [startTime |-> 1000],
      [url |-> "http://app.test/"],
      [timestamp |-> "yesterday"],
      StoredMetadata(ParsedMetadata([metadata |-> "{"]), <<"0", "a">>) }

UntimedConsolePool ==
    { [timestamp |-> 1500, source |-> "console", level |-> "log"],
      [timestamp |-> 0, level |-> "trace"] }

\* network entries without wallTime and timestamp, with both at 0, and with
\* a monotonic timestamp
UntimedNetworkPool ==
    { [resourceType |-> "XHR", url |-> <<"/", "a">>],
      [wallTime |-> 0, timestamp |-> 0, resourceType |-> "Script", url |-> <<"/", "b">>],
      [timestamp |-> 1500, resourceType |-> "XHR", url |-> <<"/", "c">>] }

\* recordings with at most one console entry
UntimedBundles ==
    { Bundle(m, c, n) : m \in UntimedMetadataPool, c \in SeqsUpTo(UntimedConsolePool, 1),
                        n \in SeqsUpTo(UntimedNetworkPool, MaxEvents) }

InitUntimed == InitWith(UntimedBundles)

SpecUntimed == InitUntimed /\ [][NextQuery]_vars

(***************************************************************************)
(* Vocabulary of the properties.                                           *)
(***************************************************************************)
Loaded == ~loading

\* the viewers that are on screen, each with the stream it was handed
MountedViews ==
    (IF consoleViewer.mounted
     THEN { [name |-> "console", viewer |-> consoleViewer, stream |-> consoleLogs] } ELSE {})
    \cup
    (IF networkViewer.mounted
     THEN { [name |-> "network", viewer |-> networkViewer, stream |-> networkRequests] } ELSE {})

\* indices (0-based) of the events of a stream that have happened at time t
EligibleIdx(stream, t) ==
    { i \in 0..(Len(stream) - 1) :
        stream[i + 1].relativeMs # NaN /\ stream[i + 1].relativeMs <= t }

DistAt(stream, i, t) == Abs(stream[i + 1].relativeMs - t)

\* indices of the eligible events at the smallest distance from t
NearestIdx(stream, t) ==
    { i \in EligibleIdx(stream, t) :
        \A j \in EligibleIdx(stream, t) : DistAt(stream, i, t) <= DistAt(stream, j, t) }

MinOf(S) == CHOOSE x \in S : \A y \in S : x <= y
MaxOf(S) == CHOOSE x \in S : \A y \in S : x >= y

VisibleIdx(viewer) == { viewer.visibleEntries[k].index : k \in 1..Len(viewer.visibleEntries) }

\* the visible entries are entries of the stream, in stream order
InStreamOrder(viewer, stream) ==
    /\ \A k \in 1..Len(viewer.visibleEntries) :
          LET pe == viewer.visibleEntries[k]
          IN  pe.index \in 0..(Len(stream) - 1) /\ pe.entry = stream[pe.index + 1]
    /\ \A k \in 1..(Len(viewer.visibleEntries) - 1) :
          viewer.visibleEntries[k].index < viewer.visibleEntries[k + 1].index

(***************************************************************************)
(* C1.  Hard-hide of future events: in both viewers, at every playback      *)
(* time and under every filter, the visible entries all have               *)
(* relativeMs <= playback time; under the filter "all" they are exactly    *)
(* the events with relativeMs <= playback time, in stream order.           *)
(***************************************************************************)
C1_HardHide ==
    \A v \in MountedViews :
        /\ InStreamOrder(v.viewer, v.stream)
        /\ VisibleIdx(v.viewer) \subseteq EligibleIdx(v.stream, currentTimeMs)
        /\ v.viewer.activeFilter = "all" =>
              VisibleIdx(v.viewer) = EligibleIdx(v.stream, currentTimeMs)

\* a viewer that shows some events and hides an event that is still to come,
\* and one that shows an event dated exactly at the playback time
C1_Witness ==
    \E v \in MountedViews :
        /\ VisibleIdx(v.viewer) # {}
        /\ \E i \in 1..Len(v.stream) :
              v.stream[i].relativeMs # NaN /\ v.stream[i].relativeMs > currentTimeMs
        /\ \E i \in VisibleIdx(v.viewer) : v.stream[i + 1].relativeMs = currentTimeMs

(***************************************************************************)
(* C2.  Nearest-window boundary: a closest eligible event at distance 1499  *)
(* ms is reported as the nearest; at distance 1500 ms or more the nearest   *)
(* index is -1, also when it is the only eligible event; it is -1 when no   *)
(* event is eligible.                                                      *)
(***************************************************************************)
C2_WindowBoundary ==
    \A v \in MountedViews :
        LET elig == EligibleIdx(v.stream, currentTimeMs)
            near == NearestIdx(v.stream, currentTimeMs)
        IN  /\ elig = {} => v.viewer.closestIndex = -1
            /\ elig # {} =>
                  LET d == DistAt(v.stream, MinOf(near), currentTimeMs)
                  IN  /\ d >= 1500 => v.viewer.closestIndex = -1
                      /\ d <= 1499 => v.viewer.closestIndex \in near

\* the closest event is 1499 ms back and is reported; one millisecond later
\* the same event, the only eligible one, is 1500 ms back and is not
C2_Witness ==
    \E v \in MountedViews :
        LET elig == EligibleIdx(v.stream, currentTimeMs)
        IN  /\ Cardinality(elig) = 1
            /\ \A i \in elig : DistAt(v.stream, i, currentTimeMs) = 1499
            /\ v.viewer.closestIndex \in elig
            /\ v.name = "console"
            /\ ConsoleQuery(v.stream, currentTimeMs + 1, v.viewer.activeFilter).closestIndex = -1

(***************************************************************************)
(* C3.  Nearest selection and tie-break.  As claimed: the nearest is an     *)
(* eligible event at the smallest distance from the playback time and,     *)
(* among several at that distance, the one with the largest index.         *)
(***************************************************************************)
C3_LatestIndexWins ==
    \A v \in MountedViews :
        LET near == NearestIdx(v.stream, currentTimeMs)
        IN  (near # {} /\ DistAt(v.stream, MinOf(near), currentTimeMs) < 1500)
                => v.viewer.closestIndex = MaxOf(near)

(***************************************************************************)
(* C3, amended.  The nearest is an eligible event at the smallest distance  *)
(* from the playback time and, among several at that distance, the one     *)
(* with the smallest index (earliest in stream order).                     *)
(***************************************************************************)
C3_EarliestIndexWins ==
    \A v \in MountedViews :
        LET near == NearestIdx(v.stream, currentTimeMs)
        IN  (near # {} /\ DistAt(v.stream, MinOf(near), currentTimeMs) < 1500)
                => v.viewer.closestIndex = MinOf(near)

\* two eligible events at the same smallest distance, inside the window
C3_Witness ==
    \E v \in MountedViews :
        LET near == NearestIdx(v.stream, currentTimeMs)
        IN  /\ Cardinality(near) >= 2
            /\ v.viewer.closestIndex = MinOf(near)
            /\ v.viewer.closestIndex # MaxOf(near)

(***************************************************************************)
(* C4.  Visibility monotonicity: under a fixed filter, when the playback    *)
(* time goes from t1 to t2 > t1 every entry visible at t1 is visible at    *)
(* t2: an entry that has become visible does not disappear while the       *)
(* playback time only advances.                                            *)
(***************************************************************************)
C4_MonotoneStep ==
    /\ (consoleViewer.mounted /\ consoleViewer'.mounted
        /\ consoleViewer'.activeFilter = consoleViewer.activeFilter
        /\ currentTimeMs < currentTimeMs')
          => \A k \in 1..Len(consoleViewer.visibleEntries) :
                \E m \in 1..Len(consoleViewer'.visibleEntries) :
                    consoleViewer'.visibleEntries[m] = consoleViewer.visibleEntries[k]
    /\ (networkViewer.mounted /\ networkViewer'.mounted
        /\ networkViewer'.activeFilter = networkViewer.activeFilter
        /\ currentTimeMs < currentTimeMs')
          => \A k \in 1..Len(networkViewer.visibleEntries) :
                \E m \in 1..Len(networkViewer'.visibleEntries) :
                    networkViewer'.visibleEntries[m] = networkViewer.visibleEntries[k]

C4_VisibilityMonotone == [][C4_MonotoneStep]_vars

\* the playback time has advanced past an event, which is visible under a
\* filter other than "all", while a later event is still hidden
C4_Witness ==
    \E v \in MountedViews :
        /\ v.viewer.activeFilter # "all"
        /\ \E i \in VisibleIdx(v.viewer) :
              v.stream[i + 1].relativeMs > 0 /\ v.stream[i + 1].relativeMs < currentTimeMs
        /\ VisibleIdx(v.viewer) # EligibleIdx(v.stream, 2000)

(***************************************************************************)
(* C5.  Filter completeness: in both viewers and at every playback time,    *)
(* the entries visible under "all" are the union of the entries visible    *)
(* under the concrete filter values the viewer offers, and no entry is     *)
(* visible under two of them.                                              *)
(***************************************************************************)
ConcreteLevels == { FILTER_LEVELS[i] : i \in 2..Len(FILTER_LEVELS) }
ConcreteTypes == { FILTER_TYPES[i] : i \in 2..Len(FILTER_TYPES) }

ConsoleVisibleIdx(t, f) ==
    LET vis == ConsoleQuery(consoleLogs, t, f).visibleEntries
    IN  { vis[k].index : k \in 1..Len(vis) }

NetworkVisibleIdx(t, f) ==
    LET vis == NetworkQuery(networkRequests, t, f).visibleEntries
    IN  { vis[k].index : k \in 1..Len(vis) }

C5_ConsoleComplete ==
    /\ ConsoleVisibleIdx(currentTimeMs, "all")
          = UNION { ConsoleVisibleIdx(currentTimeMs, c) : c \in ConcreteLevels }
    /\ \A c1, c2 \in ConcreteLevels :
          c1 # c2 => ConsoleVisibleIdx(currentTimeMs, c1) \cap ConsoleVisibleIdx(currentTimeMs, c2) = {}

C5_NetworkComplete ==
    /\ NetworkVisibleIdx(currentTimeMs, "all")
          = UNION { NetworkVisibleIdx(currentTimeMs, c) : c \in ConcreteTypes }
    /\ \A c1, c2 \in ConcreteTypes :
          c1 # c2 => NetworkVisibleIdx(currentTimeMs, c1) \cap NetworkVisibleIdx(currentTimeMs, c2) = {}

C5_FilterComplete == Loaded => (C5_ConsoleComplete /\ C5_NetworkComplete)

(***************************************************************************)
(* C6.  Signals are not dropped: once the video has stopped advancing, the  *)
(* playback time the viewers are queried with is the video's current time, *)
(* so the result on screen is the result for the position of the video.    *)
(***************************************************************************)
C6_StoppedVideoIsShown ==
    (Loaded /\ video.paused) =>
        /\ consoleViewer.mounted =>
              LET q == ConsoleQuery(consoleLogs, Times1000(video.currentTime),
                                    consoleViewer.activeFilter)
              IN  /\ consoleViewer.closestIndex = q.closestIndex
                  /\ consoleViewer.visibleEntries = q.visibleEntries
        /\ networkViewer.mounted =>
              LET q == NetworkQuery(networkRequests, Times1000(video.currentTime),
                                    networkViewer.activeFilter)
              IN  /\ networkViewer.closestIndex = q.closestIndex
                  /\ networkViewer.visibleEntries = q.visibleEntries

(***************************************************************************)
(* C7.  Never stale, idempotent: the nearest index and visible subset on    *)
(* screen are those of a fresh query for the last delivered playback time  *)
(* and the current filter; a step that delivers the time and filter        *)
(* already in force leaves the result as it is.                            *)
(***************************************************************************)
C7_Fresh ==
    /\ consoleViewer.mounted =>
          LET q == ConsoleQuery(consoleLogs, currentTimeMs, consoleViewer.activeFilter)
          IN  /\ consoleViewer.closestIndex = q.closestIndex
              /\ consoleViewer.visibleEntries = q.visibleEntries
    /\ networkViewer.mounted =>
          LET q == NetworkQuery(networkRequests, currentTimeMs, networkViewer.activeFilter)
          IN  /\ networkViewer.closestIndex = q.closestIndex
              /\ networkViewer.visibleEntries = q.visibleEntries

C7_IdempotentStep ==
    /\ (consoleViewer.mounted /\ consoleViewer'.mounted /\ currentTimeMs' = currentTimeMs
        /\ consoleViewer'.activeFilter = consoleViewer.activeFilter)
          => /\ consoleViewer'.closestIndex = consoleViewer.closestIndex
             /\ consoleViewer'.visibleEntries = consoleViewer.visibleEntries
    /\ (networkViewer.mounted /\ networkViewer'.mounted /\ currentTimeMs' = currentTimeMs
        /\ networkViewer'.activeFilter = networkViewer.activeFilter)
          => /\ networkViewer'.closestIndex = networkViewer.closestIndex
             /\ networkViewer'.visibleEntries = networkViewer.visibleEntries

C7_NeverStale == []C7_Fresh /\ [][C7_IdempotentStep]_vars

\* a time update has been delivered to a viewer whose filter was changed and
\* which shows fewer entries than have happened
C7_Witness ==
    \E v \in MountedViews :
        /\ player.lastEmitRef > 0
        /\ currentTimeMs = Times1000(video.currentTime)
        /\ v.viewer.activeFilter # "all"
        /\ VisibleIdx(v.viewer) # {}
        /\ VisibleIdx(v.viewer) # EligibleIdx(v.stream, currentTimeMs)

(***************************************************************************)
(* C8.  End-to-end scenario: for a bundle with session start S, one console *)
(* event at epoch S + a and one network event at epoch S + b, 0 <= a < b:   *)
(* at a <= t < b the console event is the console nearest iff t - a < 1500, *)
(* the network nearest is -1 and no network entry is visible; at t >= b     *)
(* both events are visible and the network event is the network nearest    *)
(* iff t - b < 1500.  (S = 1000, console at 1500, network at 2200: at 600  *)
(* the console event is nearest and the network nearest is -1; at 1300     *)
(* both are eligible and the network event is nearest.)                    *)
(***************************************************************************)
\* epoch (ms) of a raw network entry: wall clock if usable, else monotonic
RawNetworkEpoch(e) ==
    IF Has(e, "wallTime") /\ e.wallTime # 0 THEN e.wallTime
    ELSE IF Has(e, "timestamp") /\ e.timestamp # 0 THEN e.timestamp
    ELSE NaN

C8_EndToEnd ==
    (/\ Loaded
     /\ startTime # NaN
     /\ Len(response.consoleLogs) = 1
     /\ Len(response.networkRequests.array) = 1
     /\ RawNetworkEpoch(response.networkRequests.array[1]) # NaN) =>
        LET a == response.consoleLogs[1].timestamp - startTime
            b == RawNetworkEpoch(response.networkRequests.array[1]) - startTime
        IN  (0 <= a /\ a < b) =>
                \A t \in Times :
                    LET cq == ConsoleQuery(consoleLogs, t, "all")
                        nq == NetworkQuery(networkRequests, t, "all")
                    IN  /\ (a <= t /\ t < b) =>
                              /\ cq.closestIndex = (IF t - a < 1500 THEN 0 ELSE -1)
                              /\ nq.closestIndex = -1
                              /\ \A f \in ConcreteTypes \cup {"all"} :
                                    NetworkQuery(networkRequests, t, f).visibleEntries = <<>>
                        /\ t >= b =>
                              /\ Len(cq.visibleEntries) = 1
                              /\ cq.visibleEntries[1].entry.timestamp = startTime + a
                              /\ Len(nq.visibleEntries) = 1
                              /\ nq.visibleEntries[1].entry.relativeMs = b
                              /\ nq.closestIndex = (IF t - b < 1500 THEN 0 ELSE -1)

\* the bundle of the scenario, played to 1300 ms with the network tab open
C8_Witness ==
    /\ Loaded
    /\ response.metadata = [startTime |-> 1000]
    /\ Len(response.consoleLogs) = 1 /\ response.consoleLogs[1].timestamp = 1500
    /\ Len(response.networkRequests.array) = 1
    /\ RawNetworkEpoch(response.networkRequests.array[1]) = 2200
    /\ ConsoleQuery(consoleLogs, 600, "all").closestIndex = 0
    /\ NetworkQuery(networkRequests, 600, "all").closestIndex = -1
    /\ currentTimeMs = 1300
    /\ networkViewer.mounted
    /\ networkViewer.closestIndex = 0
    /\ Len(networkViewer.visibleEntries) = 1
    /\ ConsoleQuery(consoleLogs, 1300, "all").visibleEntries # <<>>

(***************************************************************************)
(* C9.  Sorted-stream invariant: after normalisation the console list and   *)
(* the network list are ascending by relativeMs, negative values first,    *)
(* and every later time update, seek and filter change leaves both lists   *)
(* in exactly that order.                                                  *)
(***************************************************************************)
Ascending(stream) ==
    \A i, j \in 1..Len(stream) :
        (i < j /\ stream[i].relativeMs # NaN /\ stream[j].relativeMs # NaN)
            => stream[i].relativeMs <= stream[j].relativeMs

C9_Sorted == Loaded => (Ascending(consoleLogs) /\ Ascending(networkRequests))

C9_FrozenStep ==
    Loaded => (consoleLogs' = consoleLogs /\ networkRequests' = networkRequests)

C9_SortedStreams == []C9_Sorted /\ [][C9_FrozenStep]_vars

\* a list uploaded out of order, with an event before the session start,
\* after a seek and a filter change
C9_Witness ==
    \E v \in MountedViews :
        /\ Len(v.stream) = 2
        /\ v.stream[1].relativeMs # NaN /\ v.stream[1].relativeMs < 0
        /\ v.stream[2].relativeMs > 0
        /\ \/ /\ v.name = "console"
              /\ response.consoleLogs[1].timestamp > response.consoleLogs[2].timestamp
           \/ /\ v.name = "network"
              /\ RawNetworkEpoch(response.networkRequests.array[1])
                    > RawNetworkEpoch(response.networkRequests.array[2])
        /\ currentTimeMs > 0
        /\ v.viewer.activeFilter # "all"

(***************************************************************************)
(* C10.  relativeMs derivation.  As claimed: console relativeMs = event     *)
(* timestamp - session start; network relativeMs = the wall-clock          *)
(* timestamp when it is present, otherwise the monotonic timestamp, minus  *)
(* the session start; the session start is startTime when given, else the  *)
(* epoch value of the ISO 8601 timestamp.                                  *)
(***************************************************************************)
StartWhenGiven(meta) ==
    IF Has(meta, "startTime") THEN meta.startTime
    ELSE IF Has(meta, "timestamp") THEN DateGetTime(meta.timestamp)
    ELSE NaN

RelWhenPresent(e, S) ==
    IF Has(e, "wallTime") THEN Minus(e.wallTime, S) ELSE Minus(e.timestamp, S)

C10_DerivedWhenPresent ==
    Loaded =>
        LET S == StartWhenGiven(response.metadata)
        IN  /\ startTime = S
            /\ Len(consoleLogs) = Len(response.consoleLogs)
            /\ \A i \in 1..Len(consoleLogs) :
                  consoleLogs[i].relativeMs = Minus(consoleLogs[i].timestamp, S)
            /\ Len(networkRequests) = Len(response.networkRequests.array)
            /\ \A i \in 1..Len(networkRequests) :
                  LET e == networkRequests[i]
                  IN  (Has(e, "wallTime") \/ Has(e, "timestamp")) =>
                          e.relativeMs = RelWhenPresent(e, S)

(***************************************************************************)
(* C10, amended.  Console relativeMs = event timestamp - session start;     *)
(* network relativeMs = the wall-clock timestamp when it is present and    *)
(* not zero, otherwise the monotonic timestamp when that is present and    *)
(* not zero, minus the session start; the session start is startTime when  *)
(* given and not zero, else the epoch value of the ISO 8601 timestamp      *)
(* (NaN when there is none or it does not parse).  relativeMs is computed  *)
(* at normalisation and no later query changes it.                         *)
(***************************************************************************)
StartWhenNonZero(meta) ==
    IF Has(meta, "startTime") /\ meta.startTime # 0 THEN meta.startTime
    ELSE IF Has(meta, "timestamp") THEN DateGetTime(meta.timestamp)
    ELSE NaN

C10_Derived ==
    Loaded =>
        LET S == StartWhenNonZero(response.metadata)
        IN  /\ startTime = S
            /\ Len(consoleLogs) = Len(response.consoleLogs)
            /\ \A i \in 1..Len(consoleLogs) :
                  consoleLogs[i].relativeMs = Minus(consoleLogs[i].timestamp, S)
            /\ Len(networkRequests) = Len(response.networkRequests.array)
            /\ \A i \in 1..Len(networkRequests) :
                  LET e == networkRequests[i]
                  IN  RawNetworkEpoch(e) # NaN => e.relativeMs = Minus(RawNetworkEpoch(e), S)
            /\ \A v \in MountedViews :
                  \A k \in 1..Len(v.viewer.visibleEntries) :
                      LET pe == v.viewer.visibleEntries[k]
                      IN  pe.entry.relativeMs = v.stream[pe.index + 1].relativeMs

C10_RelativeMsKeptStep ==
    Loaded =>
        /\ [i \in 1..Len(consoleLogs) |-> consoleLogs[i].relativeMs]
              = [i \in 1..Len(consoleLogs') |-> consoleLogs'[i].relativeMs]
        /\ [i \in 1..Len(networkRequests) |-> networkRequests[i].relativeMs]
              = [i \in 1..Len(networkRequests') |-> networkRequests'[i].relativeMs]

C10_RelativeMsDerivation == []C10_Derived /\ [][C10_RelativeMsKeptStep]_vars

\* a session start taken from the ISO timestamp, a network entry that has
\* both clocks and follows the wall clock, after a query at a later time
C10_Witness ==
    /\ Loaded
    /\ ~Has(response.metadata, "startTime")
    /\ startTime = 1000
    /\ consoleLogs # <<>>
    /\ networkViewer.mounted
    /\ currentTimeMs > 0
    /\ \E k \in 1..Len(networkViewer.visibleEntries) :
          LET e == networkViewer.visibleEntries[k].entry
          IN  /\ Has(e, "wallTime") /\ Has(e, "timestamp")
              /\ e.wallTime # e.timestamp
              /\ e.relativeMs = e.wallTime - 1000

(***************************************************************************)
(* C11.  Shape tolerance of the normaliser: a network payload that is a     *)
(* flat array of events, or a container with the events under log.entries, *)
(* gives a network stream of exactly those events; a payload of any other  *)
(* shape gives an empty stream; a websocket payload that is missing gives  *)
(* an empty connection list; none of these puts the viewer in its error    *)
(* state.                                                                  *)
(***************************************************************************)
\* how many times x occurs in seq
Occurrences(seq, x) == Cardinality({ i \in 1..Len(seq) : seq[i] = x })

\* an event of a stream as it was uploaded
WithoutRelativeMs(e) == [f \in DOMAIN e \ { "relativeMs" } |-> e[f]]

\* the stream holds the events of raw, each as often as raw does
SameEvents(stream, raw) ==
    LET uploaded == [i \in 1..Len(stream) |-> WithoutRelativeMs(stream[i])]
    IN  /\ Len(stream) = Len(raw)
        /\ \A i \in 1..Len(raw) : Occurrences(uploaded, raw[i]) = Occurrences(raw, raw[i])

IsFlatPayload(nd) == Has(nd, "array")

IsNestedPayload(nd) ==
    /\ ~Has(nd, "array") /\ Has(nd, "log")
    /\ Has(nd.log, "entries") /\ Has(nd.log.entries, "array")

C11_ShapeTolerance ==
    (~loading /\ response.ok) =>
        LET nd == response.networkRequests
        IN  /\ ~error
            /\ IsFlatPayload(nd) => SameEvents(networkRequests, nd.array)
            /\ IsNestedPayload(nd) => SameEvents(networkRequests, nd.log.entries.array)
            /\ (~IsFlatPayload(nd) /\ ~IsNestedPayload(nd)) => networkRequests = <<>>
            /\ response.webSocketLogs \in { JsonNull, JsonArray(<<>>) }
                  => webSocketLogs = JsonArray(<<>>)

(***************************************************************************)
(* C12.  Read-only streams: once the recording is loaded, no time update,   *)
(* seek, filter change, entry expansion or marker projection changes the   *)
(* console list, the network list or an event in them: both lists stay     *)
(* element for element what the normaliser produced, and the events the    *)
(* viewers hold are the events of the lists, unchanged.                    *)
(***************************************************************************)
\* what the normaliser made of the response
NormalizerOutput ==
    [console |-> NormalizeConsole(response.consoleLogs, SessionStart(response.metadata)),
     network |-> NormalizeNetwork(response.networkRequests, SessionStart(response.metadata))]

C12_Identical ==
    (~loading /\ ~error) =>
        /\ consoleLogs = NormalizerOutput.console
        /\ networkRequests = NormalizerOutput.network
        /\ \A v \in MountedViews :
              /\ v.viewer.deps.entries = v.stream
              /\ \A k \in 1..Len(v.viewer.visibleEntries) :
                    v.viewer.visibleEntries[k].entry
                        = v.stream[v.viewer.visibleEntries[k].index + 1]

C12_ReadOnlyStep ==
    ~loading => (consoleLogs' = consoleLogs /\ networkRequests' = networkRequests)

C12_ReadOnlyStreams == []C12_Identical /\ [][C12_ReadOnlyStep]_vars

\* a time update was delivered, a filter is set, a row is expanded and the
\* markers are projected, with events in both lists
C12_Witness ==
    /\ ~loading /\ ~error
    /\ Len(consoleLogs) = 2 /\ Len(networkRequests) = 2
    /\ player.lastEmitRef > 0
    /\ currentTimeMs > 0
    /\ markers # <<>>
    /\ networkViewer.mounted
    /\ networkViewer.activeFilter # "all"
    /\ networkViewer.visibleEntries # <<>>
    /\ networkViewer.expandedIndex # NoIndex

(***************************************************************************)
(* C13.  Error markers.  As claimed: every console event whose effective    *)
(* severity is "error" produces exactly one red marker at its relativeMs,  *)
(* where events of the exception source kind and of the browser source     *)
(* kind always count as errors whatever their level field says; no other   *)
(* console event produces a marker.                                        *)
(***************************************************************************)
RedMarkerTimes ==
    LET red == SelectSeq(markers, LAMBDA m : m.color = "#f85149")
    IN  [i \in 1..Len(red) |-> red[i].timeMs]

\* the relativeMs of the console events that satisfy IsError, in stream order
ErrorEventTimes(IsError(_)) ==
    LET errors == SelectSeq(consoleLogs, IsError)
    IN  [i \in 1..Len(errors) |-> errors[i].relativeMs]

\* a and b hold the same values, each as often
SameBag(a, b) ==
    /\ Len(a) = Len(b)
    /\ \A i \in 1..Len(a) : Occurrences(a, a[i]) = Occurrences(b, a[i])

HasLevelError(e) == Has(e, "level") /\ e.level = "error"

HasSource(e, kind) == Has(e, "source") /\ e.source = kind

ErrorWithBrowserKind(e) ==
    HasSource(e, "exception") \/ HasSource(e, "browser") \/ HasLevelError(e)

C13_SourceKindsAlwaysError ==
    (~loading /\ ~error) => SameBag(RedMarkerTimes, ErrorEventTimes(ErrorWithBrowserKind))

(***************************************************************************)
(* C13, amended.  Every console event whose effective severity is "error"   *)
(* produces exactly one red marker at its relativeMs, where events of the  *)
(* exception source kind always count as errors whatever their level field *)
(* says and every other event, the browser source kind included, counts as *)
(* an error when its level field is "error"; no other console event        *)
(* produces a marker.                                                      *)
(***************************************************************************)
ErrorByLevelOrException(e) == HasSource(e, "exception") \/ HasLevelError(e)

C13_ErrorMarkers ==
    (~loading /\ ~error) => SameBag(RedMarkerTimes, ErrorEventTimes(ErrorByLevelOrException))

\* an exception of level "warn" has its marker and a browser entry without
\* a level has none
C13_Witness ==
    /\ ~loading /\ ~error
    /\ Len(consoleLogs) = 2
    /\ \E i, j \in 1..2 :
          /\ HasSource(consoleLogs[i], "exception") /\ consoleLogs[i].level = "warn"
          /\ HasSource(consoleLogs[j], "browser") /\ ~Has(consoleLogs[j], "level")
          /\ RedMarkerTimes = << consoleLogs[i].relativeMs >>
    /\ currentTimeMs > 0

(***************************************************************************)
(* C14.  Marker label bound: every marker, red (console) or blue           *)
(* (network), has a label of at most 80 characters, for console messages   *)
(* and request URLs of any length.                                         *)
(***************************************************************************)
C14_LabelBound ==
    \A i \in 1..Len(markers) : Len(markers[i].label) <= 80

(***************************************************************************)
(* C15.  Request markers: every network event produces exactly one blue     *)
(* marker at its relativeMs labelled "<method> <url>" (cut to the label    *)
(* limit), whatever its status or error state; the markers depend on the   *)
(* two streams only and are the same at every playback time and under      *)
(* every filter of either viewer.                                          *)
(***************************************************************************)
BlueMarkers == SelectSeq(markers, LAMBDA m : m.color = "#58a6ff")

MethodOf(e) ==
    IF Has(e, "request") /\ Has(e.request, "method") THEN e.request.method
    ELSE IF Has(e, "method") THEN e.method
    ELSE <<"G", "E", "T">>

UrlOf(e) ==
    IF Has(e, "request") /\ Has(e.request, "url") THEN e.request.url
    ELSE IF Has(e, "url") THEN e.url
    ELSE <<>>

\* the first 80 characters of "<method> <url>"
RequestLabel(e) ==
    LET text == MethodOf(e) \o <<" ">> \o UrlOf(e)
    IN  [i \in 1..(IF Len(text) > 80 THEN 80 ELSE Len(text)) |-> text[i]]

C15_OnePerRequest ==
    (~loading /\ ~error) =>
        /\ Len(BlueMarkers) = Len(networkRequests)
        /\ \A i \in 1..Len(networkRequests) :
              /\ BlueMarkers[i].timeMs = networkRequests[i].relativeMs
              /\ BlueMarkers[i].label = RequestLabel(networkRequests[i])

C15_SameMarkersStep == ~loading => markers' = markers

C15_RequestMarkers == []C15_OnePerRequest /\ [][C15_SameMarkersStep]_vars

\* a failed request and a request answered with status 500, both marked,
\* one label cut, after a seek and under a type filter that hides one of them
C15_Witness ==
    /\ ~loading /\ ~error
    /\ Len(networkRequests) = 2
    /\ \E i, j \in 1..2 :
          /\ Has(networkRequests[i], "error")
          /\ Has(networkRequests[j], "response") /\ networkRequests[j].response.status = 500
          /\ Len(BlueMarkers[j].label) = 80
          /\ Len(BlueMarkers[i].label) < 80
    /\ currentTimeMs > 0
    /\ networkViewer.mounted
    /\ networkViewer.activeFilter # "all"
    /\ Len(networkViewer.visibleEntries) = 1

(***************************************************************************)
(* C16.  Two-stage classification: a declared type Script, Stylesheet,      *)
(* Image, Font, Media or Document gives js, css, img, font, media or doc   *)
(* whatever the URL; a declared type XHR or Fetch gives the category of    *)
(* the extension of the URL path in the extension table (the query string  *)
(* is ignored: "/a.png?x=1" gives img) and fetch when the path has no      *)
(* extension, the extension is not in the table or the URL does not parse. *)
(***************************************************************************)
DirectCategory ==
    [ Script |-> "js", Stylesheet |-> "css", Image |-> "img",
      Font |-> "font", Media |-> "media", Document |-> "doc" ]

\* the category the extension of the path gives each URL of the model
CategoryOfUrl ==
    (<<"/", "a", ".", "p", "n", "g", "?", "x", "=", "1">> :> "img") @@
    (<<"/", "a", "p", "p", ".", "J", "S">> :> "js") @@
    (<<"h", "t", "t", "p", ":", "/", "/">> :> "fetch") @@
    (<<"/", "a", "p", "i", "/", "u", "s", "e", "r", "s">> :> "fetch") @@
    (<<"/", "v", "1", ".", "2", "/", "u", "s", "e", "r", "s">> :> "fetch") @@
    (<<"/", "d", ".", "j", "s", "o", "n">> :> "fetch") @@
    (<<"h", "t", "t", "p", ":", "/", "/", "h", ".", "i", "o", "/", "s", ".", "c", "s", "s",
       "#", "t", ".", "p", "n", "g">> :> "css") @@
    (<<"h", "t", "t", "p", ":", "/", "/", "h", ".", "i", "o">> :> "fetch") @@
    (<<"/", "f", ".", "w", "o", "f", "f", "2">> :> "font") @@
    (<<"/", "v", ".", "m", "p", "4", "?", "t", "=", ".", "j", "s">> :> "media") @@
    (<<"/", "i", ".", "h", "t", "m", "l">> :> "doc") @@
    (<<>> :> "fetch")

\* the processed entries of the network viewer, for the whole stream
ClassifiedEntries == NetworkQuery(networkRequests, MaxOf(Times), "all").visibleEntries

C16_TwoStage ==
    (~loading /\ ~error) =>
        /\ Len(ClassifiedEntries) = Len(networkRequests)
        /\ \A k \in 1..Len(ClassifiedEntries) :
              LET e == ClassifiedEntries[k].entry
                  category == ClassifiedEntries[k].category
              IN  /\ (Has(e, "resourceType") /\ e.resourceType \in DOMAIN DirectCategory)
                        => category = DirectCategory[e.resourceType]
                  /\ (Has(e, "resourceType") /\ e.resourceType \in { "XHR", "Fetch" })
                        => category = CategoryOfUrl[UrlOf(e)]
        /\ networkViewer.mounted =>
              \A k \in 1..Len(networkViewer.visibleEntries) :
                  \E j \in 1..Len(ClassifiedEntries) :
                      networkViewer.visibleEntries[k] = ClassifiedEntries[j]

\* the request "/a.png?x=1" declared as XHR is on screen under the filter img
C16_Witness ==
    /\ networkViewer.mounted
    /\ networkViewer.activeFilter = "img"
    /\ Len(networkViewer.visibleEntries) = 1
    /\ networkViewer.visibleEntries[1].entry.resourceType = "XHR"
    /\ UrlOf(networkViewer.visibleEntries[1].entry)
          = <<"/", "a", ".", "p", "n", "g", "?", "x", "=", "1">>

(***************************************************************************)
(* C17.  Classifier totality: every network event, also one whose declared  *)
(* type is missing or unknown and whose URL is missing or malformed, gets  *)
(* exactly one of the concrete categories, never "all"; a declared type    *)
(* that is neither directly mapped nor XHR or Fetch gives "other".         *)
(***************************************************************************)
DirectlyMappedTypes == DOMAIN DirectCategory \cup { "WebSocket" }

C17_Total ==
    (~loading /\ ~error) =>
        \A k \in 1..Len(ClassifiedEntries) :
            LET e == ClassifiedEntries[k].entry
                category == ClassifiedEntries[k].category
                declared == IF Has(e, "resourceType") THEN e.resourceType ELSE ""
            IN  /\ category \in ConcreteTypes
                /\ Cardinality({ c \in ConcreteTypes :
                        ClassifiedEntries[k].index \in NetworkVisibleIdx(MaxOf(Times), c) }) = 1
                /\ declared \notin DirectlyMappedTypes \cup { "XHR", "Fetch" }
                      => category = "other"
                /\ declared = "WebSocket" => category = "ws"

\* an entry without declared type and without URL is on screen under "other"
C17_Witness ==
    /\ networkViewer.mounted
    /\ networkViewer.activeFilter = "other"
    /\ Len(networkViewer.visibleEntries) = 1
    /\ ~Has(networkViewer.visibleEntries[1].entry, "resourceType")
    /\ ~Has(networkViewer.visibleEntries[1].entry, "url")
    /\ ~Has(networkViewer.visibleEntries[1].entry, "request")

(***************************************************************************)
(* C18.  Summary count: after any sequence of time updates and filter       *)
(* changes the network summary reads "<visibleCount>/<totalCount>          *)
(* requests", where visibleCount is the number of events that are eligible *)
(* and match the active filter and totalCount is the length of the network *)
(* stream, so 0 <= visibleCount <= totalCount; the filter suffix is there  *)
(* iff the filter is not "all" and the websocket suffix iff there is at    *)
(* least one websocket connection.                                         *)
(***************************************************************************)
\* the eligible events of the network stream that match filter f
MatchingIdx(f) ==
    { i \in EligibleIdx(networkRequests, currentTimeMs) :
        f = "all" \/ getFilterType(networkRequests[i + 1]) = f }

\* the websocket connections of the recording
ConnectionCount ==
    IF Has(response.webSocketLogs, "array") THEN Len(response.webSocketLogs.array) ELSE 0

C18_SummaryCount ==
    networkViewer.mounted =>
        LET f == networkViewer.activeFilter
            visibleCount == Cardinality(MatchingIdx(f))
            totalCount == Len(networkRequests)
        IN  /\ 0 <= visibleCount /\ visibleCount <= totalCount
            /\ SummaryText(networkViewer, networkRequests, webSocketLogs)
                  = <<ToString(visibleCount), "/", ToString(totalCount), " requests">>
                    \o (IF f # "all" THEN <<" (", f, ")">> ELSE <<>>)
                    \o (IF ConnectionCount >= 1
                        THEN <<" | ", ToString(ConnectionCount), " WS">> ELSE <<>>)

\* "1/2 requests (js) | 1 WS": both requests have happened, one of them
\* matches the filter, and there is one websocket connection
C18_Witness ==
    /\ networkViewer.mounted
    /\ currentTimeMs > 0
    /\ SummaryText(networkViewer, networkRequests, webSocketLogs)
          = <<"1", "/", "2", " requests", " (", "js", ")", " | ", "1", " WS">>
    /\ Cardinality(EligibleIdx(networkRequests, currentTimeMs)) = 2

(***************************************************************************)
(* C19.  Store lookup is total: for every id string and after any sequence  *)
(* of uploads, whatever text was uploaded as console, network, websocket   *)
(* or metadata payload, the lookup of a recording answers with the stored  *)
(* bundle or with not-found and the lookup of a video answers with the     *)
(* video or with not-found; a recording uploaded without a video is still  *)
(* returned while its video lookup is not-found.                           *)
(***************************************************************************)
\* the ids under which an upload was stored and acknowledged
StoredIds == { id \in DOMAIN EmptyDisk : disk[id].exists /\ Has(disk[id].files, "metadata") }

C19_LookupTotal ==
    /\ reply.route = "recording" =>
          \/ reply.status = 404 /\ reply.id \notin StoredIds
          \/ reply.status = 200 /\ reply.id \in StoredIds /\ reply.body.ok
    /\ reply.route = "video" =>
          \/ reply.status = 404
          \/ reply.status = 200 /\ reply.id \in StoredIds
                /\ reply.file = disk[reply.id].files.video
    /\ \A id \in StoredIds :
          ~Has(disk[id].files, "video") =>
              /\ RecordingsRoute(disk, id).status = 200
              /\ VideoRoute(disk, id).status = 404

(***************************************************************************)
(* C20.  Chain reconstruction order: the rendering of a frame chain is one  *)
(* line per call frame of the chain in capture order, followed, iff the    *)
(* chain has a parent, by exactly one separator line labelled with the     *)
(* description of the parent ("async" by default) and the rendering of the *)
(* parent chain, and so on: as many frame lines as there are frames over   *)
(* all hops and as many separator lines as there are parents; no frame is  *)
(* left out, vendored frames included; the rendering is empty when the     *)
(* chain has no call frame and no parent.                                  *)
(***************************************************************************)
\* the stack of the row that is open in the network viewer
ExpandedEntries ==
    IF networkViewer.mounted
    THEN SelectSeq(networkViewer.visibleEntries,
                   LAMBDA pe : pe.index = networkViewer.expandedIndex)
    ELSE <<>>

\* the chain and its parents, outermost first
RECURSIVE Hops(_)
Hops(stack) == <<stack>> \o (IF Has(stack, "parent") THEN Hops(stack.parent) ELSE <<>>)

FramesOf(hop) == IF Has(hop, "callFrames") THEN hop.callFrames ELSE <<>>

\* the number of lines before the frames of hop i
RECURSIVE LinesBefore(_, _)
LinesBefore(hops, i) ==
    IF i = 1 THEN 0 ELSE LinesBefore(hops, i - 1) + Len(FramesOf(hops[i - 1])) + 1

NameOf(frame) ==
    IF Has(frame, "originalName") THEN frame.originalName
    ELSE IF Has(frame, "functionName") THEN frame.functionName
    ELSE "(anonymous)"

ChainOrder(stack, lines) ==
    LET hops == Hops(stack)
        last == Len(hops)
    IN  /\ Len(lines) = LinesBefore(hops, last) + Len(FramesOf(hops[last]))
        /\ \A i \in 1..last :
              /\ \A j \in 1..Len(FramesOf(hops[i])) :
                    LET line == lines[LinesBefore(hops, i) + j]
                    IN  /\ line.kind = "frame"
                        /\ line.fnName = NameOf(FramesOf(hops[i])[j])
              /\ i > 1 =>
                    LET line == lines[LinesBefore(hops, i)]
                    IN  /\ line.kind = "separator"
                        /\ line.label = (IF Has(hops[i], "description")
                                          THEN hops[i].description ELSE "async")

C20_ChainOrder ==
    \A k \in 1..Len(ExpandedEntries) :
        LET stack == ExpandedEntries[k].entry.initiator.stack
            lines == DetailInitiatorStack(ExpandedEntries[k].entry)
        IN  /\ ChainOrder(stack, lines)
            /\ (FramesOf(stack) = <<>> /\ ~Has(stack, "parent")) => lines = <<>>

\* a chain of two frames, one of them vendored, with a parent of one frame:
\* two frame lines, the separator, one frame line
C20_Witness ==
    /\ Len(ExpandedEntries) = 1
    /\ LET stack == ExpandedEntries[1].entry.initiator.stack
           lines == DetailInitiatorStack(ExpandedEntries[1].entry)
       IN  /\ Len(FramesOf(stack)) = 2
           /\ Has(stack, "parent") /\ Len(FramesOf(stack.parent)) = 1
           /\ \E j \in 1..2 : ~Has(stack.callFrames[j], "functionName")
           /\ [i \in 1..Len(lines) |-> lines[i].kind]
                 = <<"frame", "frame", "separator", "frame">>
           /\ lines[3].label = "async"

(***************************************************************************)
(* C21.  Array and overflow preview rendering: an object whose preview is   *)
(* an array with the properties v1..vn (n >= 1) is shown as                *)
(* "[v1, ..., vn]", the values joined by ", " and without the keys (the    *)
(* numbers 1 and 2 give "[1, 2]"); with overflow set, ", ..." stands       *)
(* before the closing bracket ("[1, 2, ...]"); a number is shown as a      *)
(* literal of its value (of its description when it has one).              *)
(***************************************************************************)
\* the markup pieces of the renderer
Tags ==
    { SpanOpen(class) : class \in { "text-gh-secondary", "text-gh-blue-num",
                                    "text-gh-blue-str", "text-gh-purple",
                                    "text-gh-purple italic", "text-gh-orange",
                                    "text-gh-error whitespace-pre-wrap" } }
    \cup { SpanClose }

\* what the HTML shows: the pieces that are not markup
TextContent(html) == SelectSeq(html, LAMBDA piece : piece \notin Tags)

\* the HTML of the rows on screen in the console viewer, with their entries
RenderedRows ==
    IF consoleViewer.mounted
    THEN [k \in 1..Len(consoleViewer.visibleEntries) |->
             [entry |-> consoleViewer.visibleEntries[k].entry,
              html |-> renderArgs(consoleViewer.visibleEntries[k].entry)]]
    ELSE <<>>

\* the rows of a console call with exactly one argument
SingleArgRows ==
    SelectSeq(RenderedRows,
              LAMBDA row : /\ Has(row.entry, "source") /\ row.entry.source = "console"
                           /\ Has(row.entry, "args") /\ Len(row.entry.args) = 1)

IsPreviewed(obj) == obj.type = "object" /\ ~Has(obj, "subtype") /\ Has(obj, "preview")

IsArrayPreview(preview) == Has(preview, "subtype") /\ preview.subtype = "array"

PropertiesOf(preview) == IF Has(preview, "properties") THEN preview.properties ELSE <<>>

Overflowed(preview) == Has(preview, "overflow") /\ preview.overflow

IsPlainNumber(prop) == prop.type = "number" /\ ~Has(prop, "valuePreview") /\ Has(prop, "value")

\* v1, ", ", v2, ... for number properties
RECURSIVE CommaJoined(_)
CommaJoined(props) ==
    IF Len(props) = 1 THEN props[1].value
    ELSE props[1].value \o <<", ">> \o CommaJoined(Tail(props))

C21_ArrayPreview ==
    \A k \in 1..Len(SingleArgRows) :
        LET obj == SingleArgRows[k].entry.args[1]
            text == TextContent(SingleArgRows[k].html)
        IN  /\ (IsPreviewed(obj) /\ IsArrayPreview(obj.preview)
                 /\ Len(PropertiesOf(obj.preview)) >= 1) =>
                  LET props == PropertiesOf(obj.preview)
                      n == Len(text)
                  IN  /\ text[1] = "[" /\ text[n] = "]"
                      /\ Overflowed(obj.preview) => text[n - 1] = ", ..."
                      /\ \A i \in 1..Len(props) :
                            \A j \in 1..(n - 1) :
                                ~(text[j] = props[i].name[1] /\ text[j + 1] = ": ")
                      /\ (\A i \in 1..Len(props) : IsPlainNumber(props[i])) =>
                            text = <<"[">> \o CommaJoined(props)
                                   \o (IF Overflowed(obj.preview) THEN <<", ...">> ELSE <<>>)
                                   \o <<"]">>
            /\ obj.type = "number" =>
                  text = (IF Has(obj, "description") THEN obj.description
                          ELSE <<ToString(obj.value)>>)

\* the rows "[1, 2, ...]" of an overflowed array of the numbers 1 and 2 is
\* on screen
C21_Witness ==
    \E k \in 1..Len(SingleArgRows) :
        LET obj == SingleArgRows[k].entry.args[1]
        IN  /\ IsPreviewed(obj) /\ IsArrayPreview(obj.preview) /\ Overflowed(obj.preview)
            /\ Len(PropertiesOf(obj.preview)) = 2
            /\ TextContent(SingleArgRows[k].html) = <<"[", "1", ", ", "2", ", ...", "]">>
            /\ currentTimeMs > 0

(***************************************************************************)
(* C22.  Overflow is never lost: for every preview with overflow set, of an *)
(* array or of a plain object and with any number of captured properties,  *)
(* none included, the inline rendering has the ellipsis marker before the  *)
(* closing bracket.                                                        *)
(***************************************************************************)
\* the HTML ends with the ellipsis marker and the closing bracket
EndsWithEllipsis(html) ==
    /\ Len(html) >= 2
    /\ html[Len(html)] \in { "]", "}" }
    /\ html[Len(html) - 1] \in { ", ...", "..." }

C22_OverflowKept ==
    \A k \in 1..Len(SingleArgRows) :
        LET obj == SingleArgRows[k].entry.args[1]
        IN  (IsPreviewed(obj) /\ Overflowed(obj.preview)) =>
                EndsWithEllipsis(SingleArgRows[k].html)

(***************************************************************************)
(* C23.  Class-name prefix: the rendering of a plain-object preview is      *)
(* "{...}" with the class name and a space in front exactly when the       *)
(* object has a class name and the name is not the generic "Object"; this  *)
(* holds for every number of properties, also for a property list that is  *)
(* there and empty ("{}" or "ClassName {}").                               *)
(***************************************************************************)
HasOwnClassName(obj) ==
    /\ Has(obj, "className") /\ obj.className # <<>>
    /\ obj.className # <<"O", "b", "j", "e", "c", "t">>

C23_ClassNamePrefix ==
    \A k \in 1..Len(SingleArgRows) :
        LET obj == SingleArgRows[k].entry.args[1]
            html == SingleArgRows[k].html
        IN  (IsPreviewed(obj) /\ ~IsArrayPreview(obj.preview)) =>
                /\ html[Len(html)] \in { "}", "{}", " {}" }
                /\ IF HasOwnClassName(obj)
                   THEN /\ SubSeq(html, 1, Len(obj.className)) = obj.className
                        /\ html[Len(obj.className) + 1] \in { " {", " {}" }
                   ELSE html[1] \in { "{", "{}" }

(***************************************************************************)
(* C24.  The nearest index does not depend on the filter: for the same      *)
(* stream and the same playback time every value of the active filter      *)
(* gives the same nearest index, which is chosen among all eligible events *)
(* before the filter is applied; a change of the filter alone leaves the   *)
(* nearest index as it is.                                                 *)
(***************************************************************************)
\* the nearest index a viewer would show under filter f
ClosestUnder(v, f) ==
    IF v.name = "console" THEN ConsoleQuery(v.stream, currentTimeMs, f).closestIndex
    ELSE NetworkQuery(v.stream, currentTimeMs, f).closestIndex

FiltersOf(v) == IF v.name = "console" THEN { FILTER_LEVELS[i] : i \in 1..Len(FILTER_LEVELS) }
                ELSE { FILTER_TYPES[i] : i \in 1..Len(FILTER_TYPES) }

C24_SameUnderEveryFilter ==
    \A v \in MountedViews :
        \A f \in FiltersOf(v) : ClosestUnder(v, f) = v.viewer.closestIndex

C24_FilterChangeStep ==
    /\ (consoleViewer.mounted /\ consoleViewer'.mounted /\ currentTimeMs' = currentTimeMs
        /\ consoleLogs' = consoleLogs)
          => consoleViewer'.closestIndex = consoleViewer.closestIndex
    /\ (networkViewer.mounted /\ networkViewer'.mounted /\ currentTimeMs' = currentTimeMs
        /\ networkRequests' = networkRequests)
          => networkViewer'.closestIndex = networkViewer.closestIndex

C24_NearestIgnoresFilter == []C24_SameUnderEveryFilter /\ [][C24_FilterChangeStep]_vars

\* the nearest entry is hidden by the active filter, which shows another
\* entry, and is still reported as the nearest
C24_Witness ==
    \E v \in MountedViews :
        /\ v.viewer.activeFilter # "all"
        /\ v.viewer.closestIndex # -1
        /\ v.viewer.closestIndex \notin VisibleIdx(v.viewer)
        /\ VisibleIdx(v.viewer) # {}

(***************************************************************************)
(* C25.  A completed seek always reaches the engine: every seeked event     *)
(* sets the playback time of the engine to the current time of the video,  *)
(* however recently the last time update was forwarded, and leaves the     *)
(* throttle as it is; a time update is forwarded only when at least 250 ms *)
(* have passed since the last forwarded time update, and a time update     *)
(* that comes sooner changes nothing.                                      *)
(***************************************************************************)
\* the video was moved to another position without time passing: a seek
IsSeekStep == ~loading /\ now' = now /\ video'.currentTime # video.currentTime

\* the throttle let a time update through
IsForwardStep == ~loading /\ player'.lastEmitRef # player.lastEmitRef

\* the video played on and its time update came inside the throttle window
IsDroppedStep == ~loading /\ now' > now /\ now' - player.lastEmitRef < 250

C25_Step ==
    /\ IsSeekStep =>
          /\ currentTimeMs' = Times1000(video'.currentTime)
          /\ player'.lastEmitRef = player.lastEmitRef
    /\ IsForwardStep =>
          /\ now' - player.lastEmitRef >= 250
          /\ player'.lastEmitRef = now'
          /\ currentTimeMs' = Times1000(video'.currentTime)
    /\ IsDroppedStep =>
          /\ currentTimeMs' = currentTimeMs
          /\ player'.lastEmitRef = player.lastEmitRef

C25_SeekReachesEngine == [][C25_Step]_vars

\* the video is playing, the last time update was forwarded less than 250 ms
\* ago, and the engine holds the position the video was seeked to
C25_Witness ==
    /\ ~video.paused
    /\ player.lastEmitRef > 0
    /\ now > player.lastEmitRef /\ now - player.lastEmitRef < 250
    /\ video.currentTime = 1999
    /\ currentTimeMs = 1999
    /\ consoleViewer.mounted /\ consoleViewer.deps.currentTimeMs = 1999

(***************************************************************************)
(* C26.  A recording becomes retrievable only when complete: an id starts   *)
(* to be retrievable only in the step of an upload that is acknowledged    *)
(* with that id, and then its directory holds the console file, the        *)
(* network file and, where the upload supplied them, the websocket file    *)
(* and the video of that upload; a retrievable id always has its console   *)
(* and network files; an upload that fails, at whatever write, makes no id *)
(* retrievable.                                                            *)
(***************************************************************************)
\* every file saveRecording writes for the upload is in the directory, with
\* the content of the upload
HoldsUpload(dir, upload, id) ==
    \A k \in 1..Len(WriteOrder(upload)) :
        LET name == WriteOrder(upload)[k]
        IN  Has(dir.files, name) /\ dir.files[name] = FileContent(upload, id, name)

C26_Retrievable ==
    \A id \in DOMAIN EmptyDisk :
        exists(disk, id) =>
            /\ Has(disk[id], "request")
            /\ Has(disk[id].files, "consoleLogs")
            /\ Has(disk[id].files, "networkRequests")

C26_Step ==
    \A id \in DOMAIN EmptyDisk :
        /\ (~exists(disk, id) /\ exists(disk', id)) =>
              /\ reply'.route = "upload" /\ reply'.status = 201 /\ reply'.body.id = id
              /\ Has(disk'[id], "request")
              /\ HoldsUpload(disk'[id], disk'[id].request, id)
        /\ (disk' # disk /\ reply'.status = 500) => (exists(disk', id) => exists(disk, id))

C26_CompleteBeforeRetrievable == []C26_Retrievable /\ [][C26_Step]_vars

\* an upload with a video whose metadata is null has failed: its directory
\* holds the video, the console file and the network file, and the lookup of
\* its id answers not-found
C26_Witness ==
    /\ reply.route = "upload" /\ reply.status = 500
    /\ \E id \in DOMAIN EmptyDisk :
          /\ disk[id].exists
          /\ disk[id].files = [video |-> "webm", consoleLogs |-> "[{\"timestamp\":1500}]",
                               networkRequests |-> "{}"]
          /\ RecordingsRoute(disk, id).status = 404
          /\ VideoRoute(disk, id).status = 404

(***************************************************************************)
(* C27.  Upload and lookup round trip: once an upload whose payload texts   *)
(* are valid JSON has been acknowledged with an id, and after any later    *)
(* uploads, the lookup of that id returns the parsed console, network and  *)
(* websocket payloads of the upload (the empty list for the websocket      *)
(* payload when none was uploaded) and metadata whose id is the            *)
(* acknowledged id and whose createdAt is the time of the server, whatever *)
(* id and createdAt the client sent; the video lookup finds a video iff    *)
(* the upload had one.                                                     *)
(***************************************************************************)
\* the texts the upload supplies are JSON
IsValidJsonUpload(upload) ==
    \A f \in { "consoleLogs", "networkRequests", "webSocketLogs", "metadata" } :
        TruthyStr(upload, f) => ~JSONParseThrows(upload[f])

\* the lookups of id answer with what the upload held
RoundTrip(files, upload, id) ==
    LET found == RecordingsRoute(files, id)
    IN  /\ found.status = 200
        /\ found.body.consoleLogs = JSONParse(TextOr(upload, "consoleLogs", "[]"))
        /\ found.body.networkRequests = JSONParse(TextOr(upload, "networkRequests", "{}"))
        /\ found.body.webSocketLogs = (IF TruthyStr(upload, "webSocketLogs")
                                       THEN JSONParse(upload.webSocketLogs)
                                       ELSE JsonArray(<<>>))
        /\ Has(found.body.metadata, "id") /\ found.body.metadata.id = id
        /\ Has(found.body.metadata, "createdAt")
        /\ found.body.metadata.createdAt = ServerClock
        /\ (VideoRoute(files, id).status = 200) = Has(upload, "video")
        /\ Has(upload, "video") => VideoRoute(files, id).file = upload.video

C27_RoundTrip ==
    \A id \in DOMAIN EmptyDisk :
        (Has(disk[id], "request") /\ IsValidJsonUpload(disk[id].request)) =>
            RoundTrip(disk, disk[id].request, id)

(***************************************************************************)
(* C28.  Ids are fresh: an upload writes only into a directory that did     *)
(* not exist before it, so no upload is given the id of an earlier upload  *)
(* and the files of a directory never change once an upload has made it,   *)
(* also when the short ids are used up and the long id is drawn.           *)
(***************************************************************************)
C28_Step ==
    \A id \in DOMAIN EmptyDisk :
        disk'[id] # disk[id] => ~disk[id].exists

C28_FreshIds == [][C28_Step]_vars

(***************************************************************************)
(* C29.  Id guard: for a request id that is empty or has a character that   *)
(* is not a lowercase hexadecimal digit, exists is false and the lookups   *)
(* of the recording and of the video answer not-found, also when the id    *)
(* is the path of a directory outside the data directory that holds a      *)
(* metadata file and a video.                                              *)
(***************************************************************************)
\* the request ids the guard is for
GuardedIds == { id \in RequestIds : ~IsHexId(id) }

C29_IdGuard ==
    /\ \A id \in GuardedIds :
          /\ ~exists(disk, id)
          /\ ~hasVideoPath(disk, id)
          /\ RecordingsRoute(disk, id).status = 404
          /\ VideoRoute(disk, id).status = 404
    /\ (reply.route \in { "recording", "video" } /\ reply.id \in GuardedIds) =>
          reply.status = 404

\* the video of ".." was asked for and not found, while the directory above
\* the data directory holds metadata.json and a video and a recording with a
\* video is stored
C29_Witness ==
    /\ reply.route = "video" /\ reply.id = ParentPath /\ reply.status = 404
    /\ disk[ParentPath].exists
    /\ Has(disk[ParentPath].files, "metadata") /\ Has(disk[ParentPath].files, "video")
    /\ \E id \in GeneratedIds : VideoRoute(disk, id).status = 200
    /\ GuardedIds = { <<"0", "A">>, ParentPath, <<>> }

(***************************************************************************)
(* C30.  Events without usable timestamps: a network event that has no      *)
(* wall-clock and no monotonic timestamp, or has them as 0, gets           *)
(* relativeMs 0 whatever the session start is, is eligible at every        *)
(* playback time from 0 on and has its marker at time 0; when the          *)
(* metadata has no startTime and no timestamp that parses as a date, no    *)
(* console event and no network event with a timestamp is eligible at any  *)
(* playback time.                                                          *)
(***************************************************************************)
\* the raw entry has neither timestamp, or has it as 0
IsUntimed(e) ==
    /\ ~Has(e, "wallTime") \/ e.wallTime = 0
    /\ ~Has(e, "timestamp") \/ e.timestamp = 0

\* the metadata of the recording gives no session start
NoSessionStart ==
    /\ ~Has(response.metadata, "startTime")
    /\ ~Has(response.metadata, "timestamp")
          \/ DateGetTime(response.metadata.timestamp) = NaN

\* the event at position i of the stream is eligible at every playback time
AlwaysEligible(stream, i) == \A t \in Times : (i - 1) \in EligibleIdx(stream, t)

\* the event at position i of the stream is eligible at no playback time
NeverEligible(stream, i) == \A t \in Times : (i - 1) \notin EligibleIdx(stream, t)

C30_UntimedEvents ==
    (Loaded /\ ~error) =>
        /\ \A i \in 1..Len(networkRequests) :
              IsUntimed(networkRequests[i]) =>
                  /\ networkRequests[i].relativeMs = 0
                  /\ AlwaysEligible(networkRequests, i)
                  /\ \A t \in Times : InTime([entry |-> networkRequests[i]], t)
                  /\ BlueMarkers[i].timeMs = 0
                  /\ (networkViewer.mounted /\ networkViewer.activeFilter = "all") =>
                        (i - 1) \in VisibleIdx(networkViewer)
        /\ NoSessionStart =>
              /\ \A i \in 1..Len(consoleLogs) :
                    consoleLogs[i].relativeMs = NaN /\ NeverEligible(consoleLogs, i)
              /\ consoleViewer.mounted => consoleViewer.visibleEntries = <<>>
              /\ \A i \in 1..Len(networkRequests) :
                    ~IsUntimed(networkRequests[i]) =>
                        /\ NeverEligible(networkRequests, i)
                        /\ networkViewer.mounted => (i - 1) \notin VisibleIdx(networkViewer)

\* a recording whose metadata is the one stored for metadata text that does
\* not parse: at playback time 2000 the network tab shows the entry without
\* timestamps and not the entry dated 1500, and the console entry has no
\* relativeMs
C30_Witness ==
    /\ Loaded /\ ~error
    /\ response.metadata = [id |-> <<"0", "a">>, createdAt |-> ServerClock]
    /\ currentTimeMs = 2000
    /\ Len(consoleLogs) = 1 /\ consoleLogs[1].relativeMs = NaN
    /\ Len(networkRequests) = 2
    /\ \E i, j \in 1..2 :
          /\ IsUntimed(networkRequests[i]) /\ ~Has(networkRequests[i], "wallTime")
          /\ Has(networkRequests[j], "timestamp") /\ networkRequests[j].timestamp = 1500
          /\ networkRequests[j].relativeMs = NaN
          /\ networkViewer.mounted /\ networkViewer.activeFilter = "all"
          /\ VisibleIdx(networkViewer) = { i - 1 }
          /\ BlueMarkers[i].timeMs = 0

====
